---------------------------- MODULE Spec2Model ----------------------------
(***************************************************************************)
(* TreeNode (R package, C++ sources under R/TreeNode/src): the binary tree *)
(* codec, the NWKA codec and the NEXUS codec, modelled as state machines.  *)
(*                                                                         *)
(* Conventions of the model                                                *)
(*   - a byte is an integer 0..255, a stream is a sequence of bytes;       *)
(*   - a std::string is the sequence of its character codes (ASCII);       *)
(*   - a double is a record: NaN, or a finite value held as an integer     *)
(*     number of 10^-7 units (std::to_string prints 6 decimals, so one     *)
(*     more decimal than the serializer keeps is representable);           *)
(*   - a std::variant<std::string,double> is a tagged record.              *)
(***************************************************************************)
EXTENDS Integers, Sequences, FiniteSets, TLC

\* ---------------------------------------------------------------- state
VARIABLES
  \* short-int packing harness (writeShortInt / readShortInt)
  siValues,     \* the child counts written so far
  siOut,        \* the bytes written so far
  currByte,     \* writer: the pending, partially filled byte
  currPos,      \* writer: bit cursor (0,2,4,6)
  siPhase,      \* "write" | "flushed" | "read" | "done"
  siIn,         \* reader: the input stream [data, pos, fail]
  rdByte,       \* reader: current byte
  rdIndex,      \* reader: bit cursor
  siRead        \* the child counts read back so far

siVars == <<siValues, siOut, currByte, currPos, siPhase, siIn, rdByte, rdIndex, siRead>>

VARIABLES
  \* binary files (writeBinaryTrees, the incremental writer, readBinaryTrees)
  binTrees,     \* the trees handed to the writer, in order
  binFile,      \* the bytes of the file
  binWr,        \* "none" | "open" | "closed" | "failed"
  binMode,      \* "none" | "whole" | "incremental" | "foreign"
  binAddresses, \* the address list (threaded through the incremental calls)
  binExtra,     \* the additional data copied before the label section
  binDamage,    \* "none" | "trailer" | "truncated" | "magic" | "reserved"
  rdPhase,      \* "idle" | "scan" | "done" | "fatal" | "throw" | "ub" | "beyond"
  rdStream,     \* the reader's stream
  rdPre,        \* what the reader took from the header and the global tables
  parsedTrees,  \* the trees decoded so far
  rdTreeNames,  \* and their names
  rdWarnings,   \* the diagnostics emitted
  rdScans       \* iterations of the recovery loop so far

binVars == <<binTrees, binFile, binWr, binMode, binAddresses, binExtra, binDamage,
             rdPhase, rdStream, rdPre, parsedTrees, rdTreeNames, rdWarnings, rdScans>>

VARIABLES
  \* text files and strings (the NWKA and NEXUS writers and readers)
  txKind,       \* "none" | "tree" | "string" | "file" | "nexus"
  txGiven,      \* what the text was made from: trees and options, or statements
  txText,       \* the characters of the string or of the file
  txPhase,      \* "idle" | "ready" | "reading" | "returned" | "error" | "ub" | "single"
  txTk,         \* the reader's position and tokenizer flags
  txStatus,     \* NEXUSStatus
  txWord,       \* the NEXUS reader's current word
  txDict,       \* translateDictionary
  txTrees,      \* tbr.trees
  txNames,      \* tbr.treeNames
  txWarnings,   \* the ordinals named by the warnings emitted
  txCount,      \* tree statements handed to parseNWKAStringOneTree so far
  txOne         \* a tree, its NWKA string and what parsing the string gave

txtVars == <<txKind, txGiven, txText, txPhase, txTk, txStatus, txWord, txDict,
             txTrees, txNames, txWarnings, txCount, txOne>>

VARIABLES
  \* the canonical traversal of one edge list (addChildren from the root)
  trTree,       \* the tree whose edge list is traversed
  trOut,        \* sortedParents, sortedChildren, sortedNodes once filled
  \* nextToken called until the end of one input
  tkSource,     \* the characters of the input
  tkKind,       \* "none" | "string" | "file"
  tkNow,        \* the position, the flags and the character last returned
  \* one value through writeInt / readInt or writeMyString / readMyString
  ioGiven,      \* the value handed to the writer and the bytes that follow it
  ioBytes,      \* the bytes the writer put on the stream
  ioBack,       \* what the reader returned and where it left the stream
  ioPhase       \* "none" | "given" | "written" | "read"

ioVars == <<ioGiven, ioBytes, ioBack, ioPhase>>

trVars == <<trTree, trOut, tkSource, tkKind, tkNow, ioVars>>

vars == <<siVars, binVars, txtVars, trVars>>

\* ---------------------------------------------------------------- bounds
\* longest sequence of child counts pushed through the packing harness
MaxCounts == 4
\* most trees, or tree statements, in a string or text file
MaxTextTrees == 2
\* largest element count of a vector the binary reader builds
MaxAlloc == 300
\* most trees in one binary file
MaxTrees == 2
\* most iterations of the recovery loop of readBinaryTrees that are followed
MaxScan == 4
\* nodes of the edge lists traversed
MaxNodes == 5
\* characters of the inputs of the tokenizer
MaxTokenLen == 4
\* every integer up to it goes through writeInt and readInt
MaxSmallInt == 300
\* characters of the short strings that go through writeMyString
MaxStringLen == 3

\* ------------------------------------------------------- bytes and bits
RECURSIVE BitAnd(_, _)
\* the C operator & on two non-negative integers
BitAnd(a, b) ==
  IF a = 0 \/ b = 0 THEN 0
  ELSE (IF (a % 2 = 1) /\ (b % 2 = 1) THEN 1 ELSE 0) + 2 * BitAnd(a \div 2, b \div 2)

RECURSIVE BitOr(_, _)
\* the C operator | on two non-negative integers
BitOr(a, b) ==
  IF a = 0 THEN b
  ELSE IF b = 0 THEN a
  ELSE (IF (a % 2 = 1) \/ (b % 2 = 1) THEN 1 ELSE 0) + 2 * BitOr(a \div 2, b \div 2)

\* (byte)x : truncation of an int to an unsigned char
ToByte(x) == x % 256

\* what an uninitialised stack byte can hold when a read fails at end of
\* stream (readByte returns buffer[0] without the stream having set it)
GarbageBytes == {0, 3, 255}

\* ------------------------------------------------------ output primitives
\* Every writer below returns the bytes it appends to the stream.

writeByte(b) == <<ToByte(b)>>

\* the two's complement image of an int32, low byte first
writeInt32(val) ==
  [k \in 1..4 |-> IF val >= 0 THEN (val \div (256 ^ (k - 1))) % 256
                  ELSE 255 - (((-(val + 1)) \div (256 ^ (k - 1))) % 256)]

\* int64 values of the model (stream offsets) are non-negative and < 2^31,
\* so the four high bytes are zero
writeInt64(val) == writeInt32(val) \o <<0, 0, 0, 0>>

\* writeInt keeping 254 in one byte
writeIntEscapeAbove254(val) ==
  IF val <= 254 THEN writeByte(val)
  ELSE writeByte(254) \o writeInt32(val)

writeInt(val) ==
  IF val < 254 THEN writeByte(val)
  ELSE writeByte(254) \o writeInt32(val)

\* the length, then writeInt((int32_t)val[i]) per character: a (signed)
\* char is below 254, so each is written as the one byte it is
writeMyString(val) ==
  writeInt(Len(val))
    \o [i \in 1..Len(val) |-> writeInt(IF val[i] >= 128 THEN val[i] - 256 ELSE val[i])[1]]

\* writeShortInt appends to the stream, updates *currByte and returns the new
\* cursor.  Result: [out, currByte, ret, stop]; stop marks Rcpp::stop.
WSI(out, cb, ret) == [out |-> out, currByte |-> cb, ret |-> ret, stop |-> FALSE]

writeShortInt(value, cb, currIndex) ==
  IF value = 0 THEN
    CASE currIndex = 0 -> WSI(<<>>, cb, 2)
      [] currIndex = 2 -> WSI(<<>>, cb, 4)
      [] currIndex = 4 -> WSI(<<>>, cb, 6)
      [] currIndex = 6 -> WSI(writeByte(cb), 0, 0)
      [] OTHER -> [out |-> <<>>, currByte |-> cb, ret |-> currIndex, stop |-> TRUE]
  ELSE IF value = 2 THEN
    CASE currIndex = 0 -> WSI(<<>>, ToByte(BitOr(cb, 1)), 2)
      [] currIndex = 2 -> WSI(<<>>, ToByte(BitOr(cb, 4)), 4)
      [] currIndex = 4 -> WSI(<<>>, ToByte(BitOr(cb, 16)), 6)
      [] currIndex = 6 -> WSI(writeByte(BitOr(cb, 64)), 0, 0)
      [] OTHER -> [out |-> <<>>, currByte |-> cb, ret |-> currIndex, stop |-> TRUE]
  ELSE IF value = 3 THEN
    CASE currIndex = 0 -> WSI(<<>>, ToByte(BitOr(cb, 2)), 2)
      [] currIndex = 2 -> WSI(<<>>, ToByte(BitOr(cb, 8)), 4)
      [] currIndex = 4 -> WSI(<<>>, ToByte(BitOr(cb, 32)), 6)
      [] currIndex = 6 -> WSI(writeByte(BitOr(cb, 128)), 0, 0)
      [] OTHER -> [out |-> <<>>, currByte |-> cb, ret |-> currIndex, stop |-> TRUE]
  ELSE IF value = 1 THEN
    CASE currIndex = 0 -> WSI(<<>>, ToByte(BitOr(cb, 3)), 4)
      [] currIndex = 2 -> WSI(<<>>, ToByte(BitOr(cb, 12)), 6)
      [] currIndex = 4 -> WSI(writeByte(BitOr(cb, 48)), 0, 0)
      [] currIndex = 6 -> WSI(writeByte(BitOr(cb, 192)), 0, 2)
      [] OTHER -> [out |-> <<>>, currByte |-> cb, ret |-> currIndex, stop |-> TRUE]
  ELSE IF value = 4 THEN
    CASE currIndex = 0 -> WSI(<<>>, ToByte(BitOr(cb, 7)), 4)
      [] currIndex = 2 -> WSI(<<>>, ToByte(BitOr(cb, 28)), 6)
      [] currIndex = 4 -> WSI(writeByte(BitOr(cb, 112)), 0, 0)
      [] currIndex = 6 -> WSI(writeByte(BitOr(cb, 192)), 1, 2)
      [] OTHER -> [out |-> <<>>, currByte |-> cb, ret |-> currIndex, stop |-> TRUE]
  ELSE IF value = 5 THEN
    CASE currIndex = 0 -> WSI(<<>>, ToByte(BitOr(cb, 11)), 4)
      [] currIndex = 2 -> WSI(<<>>, ToByte(BitOr(cb, 44)), 6)
      [] currIndex = 4 -> WSI(writeByte(BitOr(cb, 176)), 0, 0)
      [] currIndex = 6 -> WSI(writeByte(BitOr(cb, 192)), 2, 2)
      [] OTHER -> [out |-> <<>>, currByte |-> cb, ret |-> currIndex, stop |-> TRUE]
  ELSE
    CASE currIndex = 0 -> WSI(writeByte(BitOr(cb, 15)) \o writeInt(value), 0, 0)
      [] currIndex = 2 -> WSI(writeByte(BitOr(cb, 60)) \o writeInt(value), 0, 0)
      [] currIndex = 4 -> WSI(writeByte(BitOr(cb, 240)) \o writeInt(value), 0, 0)
      [] currIndex = 6 -> WSI(writeByte(BitOr(cb, 192)) \o writeByte(3) \o writeInt(value), 0, 0)
      [] OTHER -> [out |-> <<>>, currByte |-> cb, ret |-> currIndex, stop |-> TRUE]

\* ------------------------------------------------------- input primitives
\* An input stream is [data, pos, fail]: pos is the 0-based get position,
\* fail the failbit (once set, every read and every seekg is a no-op).
\* Every reader returns [val, s]; g is the content of uninitialised memory.

Stream(data) == [data |-> data, pos |-> 0, fail |-> FALSE]

readByte(s, g) ==
  IF s.fail \/ s.pos >= Len(s.data)
  THEN [val |-> g, s |-> [s EXCEPT !.fail = TRUE]]
  ELSE [val |-> s.data[s.pos + 1], s |-> [s EXCEPT !.pos = s.pos + 1]]

\* std::vector<byte> buffer(count) is zero-filled; a short read fills the
\* bytes that are there and sets failbit
readBytes(s, count) ==
  IF s.fail THEN [val |-> [k \in 1..count |-> 0], s |-> s]
  ELSE IF s.pos + count <= Len(s.data)
  THEN [val |-> [k \in 1..count |-> s.data[s.pos + k]], s |-> [s EXCEPT !.pos = s.pos + count]]
  ELSE [val |-> [k \in 1..count |-> IF s.pos + k <= Len(s.data) THEN s.data[s.pos + k] ELSE 0],
        s |-> [s EXCEPT !.pos = Len(s.data), !.fail = TRUE]]

\* num += bytes[i] << (8 * i) in a 32-bit int: wraps to negative from 2^31 on
Int32Of(b) ==
  b[1] + 256 * b[2] + 65536 * b[3] + 16777216 * (IF b[4] >= 128 THEN b[4] - 256 ELSE b[4])

readInt32(s) ==
  LET r == readBytes(s, 4) IN [val |-> Int32Of(r.val), s |-> r.s]

\* offsets of the model are < 2^31; a value with a non-zero high half is
\* reported as -1 (no such offset exists in any file of the model)
readInt64(s) ==
  LET r == readBytes(s, 8) IN
  [val |-> IF r.val[5] = 0 /\ r.val[6] = 0 /\ r.val[7] = 0 /\ r.val[8] = 0 /\ r.val[4] < 128
           THEN Int32Of(r.val) ELSE -1,
   s |-> r.s]

readInt(s, g) ==
  LET b == readByte(s, g) IN
  IF b.val < 254 THEN b ELSE readInt32(b.s)

\* seekg(off, way), way being "beg", "cur" or "end": a target before the
\* start of the stream sets failbit
seekg(s, off, way) ==
  IF s.fail THEN s
  ELSE LET target == off + (IF way = "cur" THEN s.pos
                            ELSE IF way = "end" THEN Len(s.data) ELSE 0)
       IN IF target < 0 THEN [s EXCEPT !.fail = TRUE] ELSE [s EXCEPT !.pos = target]

\* readShortInt handing back the cursor 0 whatever it has read
RSICursorZero(val, s, cb, ci) == [val |-> val, s |-> s, currByte |-> cb, currIndex |-> 0]

\* readShortInt: [val, s, currByte, currIndex]
RSI(val, s, cb, ci) == [val |-> val, s |-> s, currByte |-> cb, currIndex |-> ci]

\* the escape branch without its read of the next byte
readShortIntEscapeNoNext(s, g) ==
  LET tbr == readInt(s, g)
  IN RSI(tbr.val, tbr.s, 0, 0)

\* the escape branch shared by the four cursor positions
readShortIntEscape(s, g) ==
  LET tbr == readInt(s, g)
      nb  == readByte(tbr.s, g)
  IN RSI(tbr.val, nb.s, nb.val, 0)

readShortInt(s, cb, ci, g) ==
  IF ci = 0 THEN
    LET twoBits == BitAnd(cb, 3) IN
    IF twoBits = 0 THEN RSI(0, s, cb, 2)
    ELSE IF twoBits = 1 THEN RSI(2, s, cb, 2)
    ELSE IF twoBits = 2 THEN RSI(3, s, cb, 2)
    ELSE LET fourBits == BitAnd(cb, 15) IN
         IF fourBits = 3 THEN RSI(1, s, cb, 4)
         ELSE IF fourBits = 7 THEN RSI(4, s, cb, 4)
         ELSE IF fourBits = 11 THEN RSI(5, s, cb, 4)
         ELSE readShortIntEscape(s, g)
  ELSE IF ci = 2 THEN
    LET twoBits == BitAnd(cb, 12) \div 4 IN
    IF twoBits = 0 THEN RSI(0, s, cb, 4)
    ELSE IF twoBits = 1 THEN RSI(2, s, cb, 4)
    ELSE IF twoBits = 2 THEN RSI(3, s, cb, 4)
    ELSE LET fourBits == BitAnd(cb, 60) \div 4 IN
         IF fourBits = 3 THEN RSI(1, s, cb, 6)
         ELSE IF fourBits = 7 THEN RSI(4, s, cb, 6)
         ELSE IF fourBits = 11 THEN RSI(5, s, cb, 6)
         ELSE readShortIntEscape(s, g)
  ELSE IF ci = 4 THEN
    LET twoBits == BitAnd(cb, 48) \div 16 IN
    IF twoBits = 0 THEN RSI(0, s, cb, 6)
    ELSE IF twoBits = 1 THEN RSI(2, s, cb, 6)
    ELSE IF twoBits = 2 THEN RSI(3, s, cb, 6)
    ELSE LET fourBits == BitAnd(cb, 240) \div 16
             nb == readByte(s, g)
         IN
         IF fourBits = 3 THEN RSI(1, nb.s, nb.val, 0)
         ELSE IF fourBits = 7 THEN RSI(4, nb.s, nb.val, 0)
         ELSE IF fourBits = 11 THEN RSI(5, nb.s, nb.val, 0)
         ELSE readShortIntEscape(s, g)
  ELSE
    LET twoBits == BitAnd(cb, 192) \div 64
        nb == readByte(s, g)
    IN
    IF twoBits = 0 THEN RSI(0, nb.s, nb.val, 0)
    ELSE IF twoBits = 1 THEN RSI(2, nb.s, nb.val, 0)
    ELSE IF twoBits = 2 THEN RSI(3, nb.s, nb.val, 0)
    ELSE LET fourBits == BitOr(twoBits, BitAnd(nb.val, 3) * 4) IN
         IF fourBits = 3 THEN RSI(1, nb.s, nb.val, 2)
         ELSE IF fourBits = 7 THEN RSI(4, nb.s, nb.val, 2)
         ELSE IF fourBits = 11 THEN RSI(5, nb.s, nb.val, 2)
         ELSE readShortIntEscape(nb.s, g)

\* ================================================================ strings
\* character codes used by the codecs
\* "name", "length", "support", "treename" (common.h:17-20)
NAMEATTRIBUTE == <<110, 97, 109, 101>>
LENGTHATTRIBUTE == <<108, 101, 110, 103, 116, 104>>
SUPPORTATTRIBUTE == <<115, 117, 112, 112, 111, 114, 116>>
TREENAMEATTRIBUTE == <<116, 114, 101, 101, 110, 97, 109, 101>>

\* std::toupper in the "C" locale
toupper(c) == IF c >= 97 /\ c <= 122 THEN c - 32 ELSE c
\* the strings compared as they are
equalExactly(str1, str2) == str1 = str2

\* equalCI: the lengths, then the characters one by one
equalCI(str1, str2) ==
  /\ Len(str1) = Len(str2)
  /\ \A i \in 1..Len(str1) : str1[i] = str2[i] \/ toupper(str1[i]) = toupper(str2[i])

\* ================================================================ doubles
NaN == [isNaN |-> TRUE, v |-> 0]
Dbl(units) == [isNaN |-> FALSE, v |-> units]
\* infinity
Inf == [isNaN |-> FALSE, v |-> 2147483647]

\* The IEEE-754 binary64 image (little-endian) of the doubles the trees of
\* the model hold; writeDouble copies the 8 bytes of the value.
DoubleImage ==
  [units \in {0, 5000000, 10000000, 20000000, 30000000, 40000000, 900000000} |->
     CASE units = 0 -> <<0, 0, 0, 0, 0, 0, 0, 0>>
       [] units = 5000000 -> <<0, 0, 0, 0, 0, 0, 224, 63>>
       [] units = 10000000 -> <<0, 0, 0, 0, 0, 0, 240, 63>>
       [] units = 20000000 -> <<0, 0, 0, 0, 0, 0, 0, 64>>
       [] units = 30000000 -> <<0, 0, 0, 0, 0, 0, 8, 64>>
       [] units = 40000000 -> <<0, 0, 0, 0, 0, 0, 16, 64>>
       [] units = 900000000 -> <<0, 0, 0, 0, 0, 128, 86, 64>>]

NaNImage == <<0, 0, 0, 0, 0, 0, 248, 127>>

\* a double whose 8 bytes are none of the images above
OtherDouble == [isNaN |-> FALSE, v |-> -1]

writeDouble(value) ==
  IF value.isNaN THEN NaNImage ELSE DoubleImage[value.v]

\* stream->read((char*)&buffer, 8) into an uninitialised double: a short
\* read leaves (part of) the buffer unset
readDouble(s) ==
  LET r == readBytes(s, 8) IN
  [val |-> IF r.s.fail THEN OtherDouble
           ELSE IF r.val = NaNImage THEN NaN
           ELSE IF \E u \in DOMAIN DoubleImage : DoubleImage[u] = r.val
                THEN Dbl(CHOOSE u \in DOMAIN DoubleImage : DoubleImage[u] = r.val)
                ELSE OtherDouble,
   s |-> r.s]

\* std::to_string(int) for n >= 0
RECURSIVE IntToString(_)
IntToString(n) ==
  IF n < 10 THEN <<48 + n>> ELSE Append(IntToString(n \div 10), 48 + (n % 10))

\* std::to_string(double): printf("%f"), six decimals, rounded
DoubleToString(d) ==
  IF d.isNaN THEN <<110, 97, 110>>
  ELSE IF d = Inf THEN <<105, 110, 102>>
  ELSE LET micro == ((IF d.v < 0 THEN -d.v ELSE d.v) + 5) \div 10
       IN (IF d.v < 0 THEN <<45>> ELSE <<>>)
            \o IntToString(micro \div 1000000) \o <<46>>
            \o [k \in 1..6 |-> 48 + ((micro \div (10 ^ (6 - k))) % 10)]

\* ------------------------------------------------------------ std::stod
\* first position j >= i of str whose character is outside set (Len + 1 if none)
SpanEnd(str, i, set) ==
  LET stops == {j \in i..Len(str) : str[j] \notin set}
  IN IF stops # {} THEN CHOOSE j \in stops : \A k \in stops : j <= k
     ELSE IF i > Len(str) THEN i ELSE Len(str) + 1

\* the characters std::isspace accepts, and the decimal digits
Spaces == {9, 10, 11, 12, 13, 32}
Digits == 48..57
\* str holds word at position i, whatever the case
HasWordAt(str, i, word) ==
  /\ i + Len(word) - 1 <= Len(str)
  /\ \A k \in 1..Len(word) : toupper(str[i + k - 1]) = toupper(word[k])

\* the doubles of the model are below 200; a larger magnitude is held as
\* "large" (its exact value plays no part in any decision of the program)
Large == [isNaN |-> FALSE, v |-> 2000000000]

\* value of the decimal digits str[a..b-1], saturating at 1000
RECURSIVE DigitsValue(_, _, _)
DigitsValue(str, a, b) ==
  IF b <= a THEN 0
  ELSE LET hi == DigitsValue(str, a, b - 1)
       IN IF hi >= 1000 THEN 1000 ELSE hi * 10 + (str[b - 1] - 48)

\* the first seven decimals str[a..b-1] as an integer number of 10^-7
FractionUnits(str, a, b) ==
  LET F[k \in 0..7] ==
        IF k = 0 THEN 0
        ELSE F[k - 1] * 10 + (IF a + k - 1 < b THEN str[a + k - 1] - 48 ELSE 0)
  IN F[7]

\* units * 10^e, saturating
RECURSIVE Scale(_, _)
Scale(units, e) ==
  IF e = 0 \/ units = 0 THEN units
  ELSE IF e > 0 THEN (IF units >= 200000000 THEN Large.v ELSE Scale(units * 10, e - 1))
  ELSE Scale(units \div 10, e + 1)

\* std::stod(str, &p): [ok, val, p]; ok is FALSE when it throws.
\* The scan goes through the parts of the number in turn: white space and
\* sign, integer digits, fraction, exponent.

\* std::stod(str, &p): [ok, val, p]; ok is FALSE when it throws.  The number
\* is: white space, a sign, then nan, inf or infinity, or digits (ending
\* before intEnd) with an optional fraction (before fracEnd) and an optional
\* exponent (before expEnd; an 'e' without digits is not part of the number).
stod(str) ==
  CHOOSE result \in
    {LET signed == i0 <= Len(str) /\ str[i0] \in {43, 45}
         i1 == IF i0 <= Len(str) /\ str[i0] \in {43, 45} THEN i0 + 1 ELSE i0
     IN
     IF HasWordAt(str, i1, <<110, 97, 110>>) THEN [ok |-> TRUE, val |-> NaN, p |-> i1 + 2]
     ELSE IF HasWordAt(str, i1, <<105, 110, 102, 105, 110, 105, 116, 121>>)
     THEN [ok |-> TRUE, val |-> Inf, p |-> i1 + 7]
     ELSE IF HasWordAt(str, i1, <<105, 110, 102>>) THEN [ok |-> TRUE, val |-> Inf, p |-> i1 + 2]
     ELSE
       CHOOSE number \in
         {LET hasPoint == intEnd <= Len(str) /\ str[intEnd] = 46 IN
          CHOOSE mantissa \in
            {LET hasE == fracEnd <= Len(str) /\ str[fracEnd] \in {69, 101}
                 e1 == IF fracEnd + 1 <= Len(str) /\ str[fracEnd + 1] \in {43, 45}
                       THEN fracEnd + 2 ELSE fracEnd + 1
             IN
             CHOOSE exponent \in
               {LET nDigits == (intEnd - i1) + (IF hasPoint THEN fracEnd - intEnd - 1 ELSE 0)
                    mant == IF DigitsValue(str, i1, intEnd) >= 200 THEN Large.v
                            ELSE DigitsValue(str, i1, intEnd) * 10000000
                                   + (IF hasPoint THEN FractionUnits(str, intEnd + 1, fracEnd)
                                      ELSE 0)
                    hasExp == hasE /\ expEnd > e1
                    expNeg == hasE /\ expEnd > e1 /\ str[fracEnd + 1] = 45
                    expVal == IF hasE /\ expEnd > e1 THEN DigitsValue(str, e1, expEnd) ELSE 0
                IN
                IF nDigits = 0 \/ (hasExp /\ ~expNeg /\ expVal > 308 /\ mant # 0)
                THEN [ok |-> FALSE, val |-> NaN, p |-> 0]
                ELSE [ok |-> TRUE,
                      val |-> Dbl((IF signed /\ str[i0] = 45 THEN -1 ELSE 1)
                                    * (IF mant = Large.v THEN Large.v
                                       ELSE IF expVal > 30
                                       THEN (IF expNeg \/ mant = 0 THEN 0 ELSE Large.v)
                                       ELSE Scale(mant, IF expNeg THEN -expVal ELSE expVal))),
                      p |-> (IF hasExp THEN expEnd ELSE fracEnd) - 1]
                : expEnd \in {IF hasE THEN SpanEnd(str, e1, Digits) ELSE e1}} : TRUE
             : fracEnd \in {IF hasPoint THEN SpanEnd(str, intEnd + 1, Digits) ELSE intEnd}} : TRUE
          : intEnd \in {SpanEnd(str, i1, Digits)}} : TRUE
     : i0 \in {SpanEnd(str, 1, Spaces)}} : TRUE

\* tryParse(std::string, double*): [ok, val]
tryParse(val) ==
  IF Len(val) = 0 THEN [ok |-> FALSE, val |-> NaN]
  ELSE CHOOSE out \in {IF r.ok /\ r.p = Len(val) THEN [ok |-> TRUE, val |-> r.val]
                       ELSE [ok |-> FALSE, val |-> NaN] : r \in {stod(val)}} : TRUE

\* ============================================================= tree model
\* struct Attribute
Attr(name, isNumeric) == [AttributeName |-> name, IsNumeric |-> isNumeric]

\* std::variant<std::vector<std::string>, std::vector<double>>
StrVec(xs) == [isNum |-> FALSE, s |-> xs, d |-> <<>>]
NumVec(xs) == [isNum |-> TRUE, s |-> <<>>, d |-> xs]

\* std::variant<std::string, double>
StrVal(x) == [isNum |-> FALSE, s |-> x, d |-> NaN]
NumVal(x) == [isNum |-> TRUE, s |-> <<>>, d |-> x]

\* C++ vectors are 0-based; Vec(seq) is the vector holding seq, At reads it
At(seq, i) == seq[i + 1]

\* a value that is written: a non-NaN double or a non-empty string
IsSet(val) == IF val.isNum THEN ~val.d.isNaN ELSE val.s # <<>>

\* attributeIndex comparing the names character by character
attributeIndexExact(attributes, attribute) ==
  LET hits == {i \in 1..Len(attributes) : attributes[i] = attribute}
  IN IF hits = {} THEN -1 ELSE (CHOOSE i \in hits : \A k \in hits : i <= k) - 1

\* attributeIndex: position (0-based) of the slot with the same name
\* (case-insensitively) and type, -1 if none
attributeIndex(attributes, attribute) ==
  LET hits == {i \in 1..Len(attributes) :
                 /\ equalCI(attributes[i].AttributeName, attribute.AttributeName)
                 /\ attributes[i].IsNumeric = attribute.IsNumeric}
  IN IF hits = {} THEN -1 ELSE (CHOOSE i \in hits : \A k \in hits : i <= k) - 1

\* ------------------------------------------------------ canonical traversal
\* children: function node id -> sequence of child ids (from the edge list)
\* st: [sortedParents, sortedChildren, sortedNodes, currIndex], 0-based
\*     vectors held as functions over 0..n-1
RECURSIVE addChildren(_, _, _, _)
RECURSIVE addChildrenLoop(_, _, _, _, _)
addChildren(children, st, currNonSortedIndex, currSortedParent) ==
  addChildrenLoop(children,
                  [st EXCEPT !.sortedParents[st.currIndex] = currSortedParent,
                             !.sortedNodes[st.currIndex] = currNonSortedIndex,
                             !.currIndex = st.currIndex + 1],
                  currNonSortedIndex, st.currIndex, 1)

\* the loop over the children of node, from the i-th on: what addChildren
\* returns for a child is pushed onto (*sortedChildren)[myIndex]
addChildrenLoop(children, st, node, myIndex, i) ==
  IF i > Len(children[node]) THEN [st |-> st, ret |-> myIndex]
  ELSE addChildrenLoop(
         children,
         CHOOSE pushed \in
           {[r.st EXCEPT !.sortedChildren[myIndex] = Append(@, r.ret)]
            : r \in {addChildren(children, st, children[node][i], myIndex)}} : TRUE,
         node, myIndex, i + 1)

\* number of nodes of a tree
NodeTotal(tree) == tree.Nnode + Len(tree.tipLabel)

\* the children of every node pushed in front instead of at the back
EdgeChildrenReversed(tree) ==
  [n \in 0..NodeTotal(tree) |->
     LET idx == {i \in 1..Len(tree.edge) : tree.edge[i][1] = n}
         F[k \in 0..Len(tree.edge)] ==
           IF k = 0 THEN <<>>
           ELSE IF k \in idx THEN <<tree.edge[k][2]>> \o F[k - 1] ELSE F[k - 1]
     IN F[Len(tree.edge)]]

\* children[edge[i][0]].push_back(edge[i][1]); parents[edge[i][1]] = edge[i][0]
EdgeChildren(tree) ==
  [n \in 0..NodeTotal(tree) |->
     LET idx == {i \in 1..Len(tree.edge) : tree.edge[i][1] = n}
         F[k \in 0..Len(tree.edge)] ==
           IF k = 0 THEN <<>>
           ELSE IF k \in idx THEN Append(F[k - 1], tree.edge[k][2]) ELSE F[k - 1]
     IN F[Len(tree.edge)]]

\* parents[edge[i][1]] = edge[i][0] for every edge, then the first i >= 1
\* with parents[i] == 0 (-1 if there is none)
RootNode(tree) ==
  LET last(n) == {i \in 1..Len(tree.edge) :
                    tree.edge[i][2] = n /\ \A k \in (i + 1)..Len(tree.edge) : tree.edge[k][2] # n}
      roots == {n \in 1..NodeTotal(tree) : \A i \in last(n) : tree.edge[i][1] = 0}
  IN IF roots = {} THEN -1 ELSE CHOOSE n \in roots : \A k \in roots : n <= k

\* the vectors filled by addChildren(&children, ..., &currIndex, rootNode, -1)
Traversal(tree) ==
  addChildren(EdgeChildren(tree),
              [sortedParents |-> [i \in 0..(NodeTotal(tree) - 1) |-> 0],
               sortedChildren |-> [i \in 0..(NodeTotal(tree) - 1) |-> <<>>],
               sortedNodes |-> [i \in 0..(NodeTotal(tree) - 1) |-> 0],
               currIndex |-> 0],
              RootNode(tree), -1).st

\* ------------------------------------------------------------ conversion
\* position (0-based) of the last slot with this name (whatever the case)
\* and type, -1 if none
LastSlot(attributes, name, isNumeric) ==
  LET hits == {j \in 1..Len(attributes) :
                 equalCI(attributes[j].AttributeName, name)
                   /\ attributes[j].IsNumeric = isNumeric}
  IN IF hits = {} THEN -1 ELSE (CHOOSE j \in hits : \A k \in hits : k <= j) - 1

\* the value the loop over tree->edge leaves in the slot of a node: the
\* length of the last edge ending in it, NaN if no edge does
EdgeLengthOf(tree, node) ==
  LET idx == {i \in 1..Len(tree.edge) : tree.edge[i][2] = node}
  IN IF idx = {} THEN NaN ELSE tree.edgeLength[CHOOSE i \in idx : \A k \in idx : k <= i]

\* setAttributes: the "Name", "Length" and "Support" slots a tree lacks are
\* added, in this order, from its labels and edge lengths; a tree with a
\* "Name" slot takes its tip labels from it.  The three indices are those of
\* the last such slots of the tree as it came, areNodeLabelsNames says that
\* some node label is not empty and is not a number.
setAttributes(tree) ==
  CHOOSE result \in
    {[tree EXCEPT
        !.tipLabel = IF nameIndex < 0 THEN @ ELSE At(tree.tipAttributes, nameIndex).s,
        !.attributes =
           @ \o (IF nameIndex < 0 THEN <<Attr(<<78, 97, 109, 101>>, FALSE)>> ELSE <<>>)
             \o (IF lengthIndex < 0 THEN <<Attr(<<76, 101, 110, 103, 116, 104>>, TRUE)>>
                 ELSE <<>>)
             \o (IF supportIndex < 0
                 THEN <<Attr(<<83, 117, 112, 112, 111, 114, 116>>, TRUE)>> ELSE <<>>),
        !.tipAttributes =
           @ \o (IF nameIndex < 0 THEN <<StrVec(tree.tipLabel)>> ELSE <<>>)
             \o (IF lengthIndex < 0
                 THEN <<NumVec([k \in 1..tipCount |-> EdgeLengthOf(tree, k)])>> ELSE <<>>)
             \o (IF supportIndex < 0 THEN <<NumVec([k \in 1..tipCount |-> NaN])>> ELSE <<>>),
        !.nodeAttributes =
           @ \o (IF nameIndex < 0
                 THEN <<StrVec(IF areNodeLabelsNames THEN tree.nodeLabel
                               ELSE [k \in 1..tree.Nnode |-> <<>>])>>
                 ELSE <<>>)
             \o (IF lengthIndex < 0
                 THEN <<NumVec([k \in 1..tree.Nnode |-> EdgeLengthOf(tree, k + tipCount)])>>
                 ELSE <<>>)
             \o (IF supportIndex < 0
                 THEN <<NumVec([k \in 1..tree.Nnode |->
                                  IF Len(tree.nodeLabel) = 0 \/ areNodeLabelsNames THEN NaN
                                  ELSE IF k <= Len(tree.nodeLabel)
                                  THEN tryParse(tree.nodeLabel[k]).val
                                  ELSE Dbl(0)])>>
                 ELSE <<>>)]
     : nameIndex \in {LastSlot(tree.attributes, NAMEATTRIBUTE, FALSE)},
       lengthIndex \in {LastSlot(tree.attributes, LENGTHATTRIBUTE, TRUE)},
       supportIndex \in {LastSlot(tree.attributes, SUPPORTATTRIBUTE, TRUE)},
       tipCount \in {IF LastSlot(tree.attributes, NAMEATTRIBUTE, FALSE) < 0
                     THEN Len(tree.tipLabel)
                     ELSE Len(At(tree.tipAttributes,
                                 LastSlot(tree.attributes, NAMEATTRIBUTE, FALSE)).s)},
       areNodeLabelsNames \in
         {\E i \in 1..Len(tree.nodeLabel) :
            Len(tree.nodeLabel[i]) > 0 /\ ~tryParse(tree.nodeLabel[i]).ok}} : TRUE

\* convertTree hands the R tree to setAttributes; a tree without a
\* "TreeName" slot gets one holding its name in the R list at the root
\* convertAttributeList: [vecs, attrs].  An empty element is passed over; of
\* any other the vector is kept, and its name and type join allAttributes
\* unless an attribute of this name (whatever the case) and type is there
RECURSIVE convertAttributeList(_, _, _)
convertAttributeList(list, tbr, allAttributes) ==
  IF list = <<>> THEN [vecs |-> tbr, attrs |-> allAttributes]
  ELSE LET e == Head(list)
           size == Len(IF e.vec.isNum THEN e.vec.d ELSE e.vec.s)
       IN IF size = 0 THEN convertAttributeList(Tail(list), tbr, allAttributes)
          ELSE convertAttributeList(
                 Tail(list), Append(tbr, e.vec),
                 IF LastSlot(allAttributes, e.name, e.vec.isNum) >= 0 THEN allAttributes
                 ELSE Append(allAttributes, Attr(e.name, e.vec.isNum)))

\* convertTree: the fields of the R tree, the two attribute lists (tips
\* first), then setAttributes
convertTree(tree) ==
  CHOOSE tbr \in
    {setAttributes(
       [Nnode |-> tree.Nnode, rootEdge |-> NaN, edge |-> tree.edge,
        tipLabel |-> tree.tipLabel, nodeLabel |-> tree.nodeLabel,
        edgeLength |-> tree.edgeLength, tipAttributes |-> tips.vecs,
        nodeAttributes |-> nodes.vecs, attributes |-> nodes.attrs,
        hasEdgeLength |-> FALSE, hasNodeLabel |-> FALSE])
     : tips \in {convertAttributeList(tree.tipList, <<>>, <<>>)},
       nodes \in {convertAttributeList(
                    tree.nodeList, <<>>,
                    convertAttributeList(tree.tipList, <<>>, <<>>).attrs)}} : TRUE

convertTrees(trees, treeNames) ==
  [i \in 1..Len(trees) |->
     CHOOSE named \in
       {IF LastSlot(tree.attributes, TREENAMEATTRIBUTE, FALSE) >= 0 THEN tree
        ELSE [tree EXCEPT
                !.attributes = Append(@, Attr(<<84, 114, 101, 101, 78, 97, 109, 101>>, FALSE)),
                !.tipAttributes = Append(@, StrVec([k \in 1..Len(tree.tipLabel) |-> <<>>])),
                !.nodeAttributes =
                   Append(@, StrVec([k \in 1..tree.Nnode |->
                                       IF k = 1 THEN treeNames[i] ELSE <<>>]))]
        : tree \in {convertTree(trees[i])}} : TRUE]

\* ---------------------------------------------------------- what a tree says
\* the value of attribute slot j (1-based) at a node (1-based id)
NodeValue(tree, j, node) ==
  LET tipCount == Len(tree.tipLabel)
      vec == IF node <= tipCount THEN tree.tipAttributes[j] ELSE tree.nodeAttributes[j]
      k == IF node <= tipCount THEN node ELSE node - tipCount
  IN IF vec.isNum THEN NumVal(vec.d[k]) ELSE StrVal(vec.s[k])

\* the attribute values that are set at a node, as (name, value) pairs
NodeAttrs(tree, node) ==
  {<<tree.attributes[j].AttributeName, NodeValue(tree, j, node)>> :
     j \in {x \in 1..Len(tree.attributes) : IsSet(NodeValue(tree, x, node))}}

\* the label of an internal node ("" when the tree has no node labels)
NodeLabelOf(tree, node) ==
  LET k == node - Len(tree.tipLabel)
  IN IF k >= 1 /\ k <= Len(tree.nodeLabel) THEN tree.nodeLabel[k] ELSE <<>>

\* A tree with 1-based node ids read in canonical DFS order: per position
\* the child count, the tip label or node label, the length of the edge
\* above the node and the attribute values set at it.
TreeView(tree) ==
  LET tr == Traversal(tree)
      tipCount == Len(tree.tipLabel)
  IN [i \in 0..(NodeTotal(tree) - 1) |->
        LET node == tr.sortedNodes[i] IN
        [count |-> Len(tr.sortedChildren[i]),
         label |-> IF node <= tipCount THEN tree.tipLabel[node] ELSE NodeLabelOf(tree, node),
         length |-> EdgeLengthOf(tree, node),
         attrs |-> NodeAttrs(tree, node)]]

\* the ids of a decoded tree are 0-based: shifted as convertPhylo does
OneBased(tree) ==
  [tree EXCEPT !.edge = [i \in 1..Len(tree.edge) |-> <<tree.edge[i][1] + 1, tree.edge[i][2] + 1>>]]

\* ============================================================ binary writer
\* A writer step returns [out, st]: the bytes it put on the stream and how it
\* ended: "ok", "throw" (a C++ exception left the function) or "ub" (an
\* out-of-range operator[] was evaluated).

\* std::get<std::vector<T>>(vecs[j])[k], T being double or std::string
GetValue(vecs, j, k, isNumeric) ==
  IF j < 0 \/ j >= Len(vecs)
  THEN [st |-> "ub", val |-> IF isNumeric THEN NumVal(NaN) ELSE StrVal(<<>>)]
  ELSE IF At(vecs, j).isNum # isNumeric
  THEN [st |-> "throw", val |-> IF isNumeric THEN NumVal(NaN) ELSE StrVal(<<>>)]
  ELSE IF k < 0 \/ k >= Len(IF isNumeric THEN At(vecs, j).d ELSE At(vecs, j).s)
  THEN [st |-> "ub", val |-> IF isNumeric THEN NumVal(NaN) ELSE StrVal(<<>>)]
  ELSE [st |-> "ok",
        val |-> IF isNumeric THEN NumVal(At(At(vecs, j).d, k)) ELSE StrVal(At(At(vecs, j).s, k))]

\* std::map<Attribute, size_t, AttributeLess>: AttributeLess orders by
\* AttributeName.compare alone, so a key is an exact attribute name.
\* The map is held as a function name -> index.
EmptyMap == [x \in {} |-> 0]

\* the loop  if (map.insert({a, map.size()}).second) reverse.push_back(a)
RECURSIVE InsertAttributes(_, _, _)
InsertAttributes(attrs, map, rev) ==
  IF attrs = <<>> THEN [map |-> map, rev |-> rev]
  ELSE IF Head(attrs).AttributeName \in DOMAIN map
  THEN InsertAttributes(Tail(attrs), map, rev)
  ELSE InsertAttributes(Tail(attrs),
                        map @@ (Head(attrs).AttributeName :> Cardinality(DOMAIN map)),
                        Append(rev, Head(attrs)))

\* the name/type table: string name, then 2 for numeric and 1 for text
RECURSIVE AttributeTable(_)
AttributeTable(rev) ==
  IF rev = <<>> THEN <<>>
  ELSE writeMyString(Head(rev).AttributeName)
         \o writeInt(IF Head(rev).IsNumeric THEN 2 ELSE 1)
         \o AttributeTable(Tail(rev))

\* the child-count loop of writeBinaryTree and its final flush
RECURSIVE PackCounts(_, _, _, _)
PackCounts(counts, i, cb, pos) ==
  IF i > Len(counts) THEN (IF pos # 0 THEN writeByte(cb) ELSE <<>>)
  ELSE LET w == writeShortInt(counts[i], cb, pos)
       IN w.out \o PackCounts(counts, i + 1, w.currByte, w.ret)

\* index offset under which a shared name is written: tips write
\* iter->second + 1 (line 426), internal nodes iter->second (line 500)
TipNameOffset == 1
NodeNameOffset == 0

\* the (index, value) pair of attribute j (0-based) of one node
AttributePair(a, val, index, globalNames, names, nameOffset) ==
  IF ~IsSet(val) THEN <<>>
  ELSE IF ~a.IsNumeric /\ equalCI(a.AttributeName, NAMEATTRIBUTE) /\ globalNames
  THEN writeInt(index)
         \o (IF val.s \in DOMAIN names
             THEN writeInt(names[val.s] + nameOffset)
             ELSE writeByte(255) \o writeMyString(val.s))
  ELSE IF a.IsNumeric THEN writeInt(index) \o writeDouble(val.d)
  ELSE writeInt(index) \o writeMyString(val.s)

\* (*attributes)[key] is operator[] of std::map: 0 for a key that is absent
RECURSIVE ConcatPairs(_, _, _, _, _, _, _)
ConcatPairs(rev, vals, j, attributes, globalNames, names, nameOffset) ==
  IF j > Len(rev) THEN <<>>
  ELSE AttributePair(rev[j], vals[j].val,
                     IF rev[j].AttributeName \in DOMAIN attributes
                     THEN attributes[rev[j].AttributeName] ELSE 0,
                     globalNames, names, nameOffset)
         \o ConcatPairs(rev, vals, j + 1, attributes, globalNames, names, nameOffset)

\* one iteration of the per-node loop: the values of the node's attributes
\* (vals[j] is [st, val]), the count of those that are set, then the pairs
WriteNode(tree, node, rev, attributes, globalNames, names) ==
  CHOOSE w \in
    {IF \E j \in 1..Len(rev) : vals[j].st # "ok"
     THEN [out |-> <<>>,
           st |-> vals[CHOOSE j \in 1..Len(rev) :
                         vals[j].st # "ok" /\ \A k2 \in 1..(j - 1) : vals[k2].st = "ok"].st]
     ELSE [out |-> writeInt(Cardinality({j \in 1..Len(rev) : IsSet(vals[j].val)}))
                     \o ConcatPairs(rev, vals, 1, attributes, globalNames, names,
                                    IF node <= Len(tree.tipLabel) THEN TipNameOffset
                                    ELSE NodeNameOffset),
           st |-> "ok"]
     : vals \in {[j \in 1..Len(rev) |->
                    IF node <= Len(tree.tipLabel)
                    THEN GetValue(tree.tipAttributes, j - 1, node - 1, rev[j].IsNumeric)
                    ELSE GetValue(tree.nodeAttributes, j - 1, node - Len(tree.tipLabel) - 1,
                                  rev[j].IsNumeric)]}} : TRUE

\* the loop over the nodes in traversal order, from position i on; it ends
\* with the first node that does not end well
RECURSIVE WriteNodes(_, _, _, _, _, _, _)
WriteNodes(tree, tr, i, rev, attributes, globalNames, names) ==
  IF i >= NodeTotal(tree) THEN [out |-> <<>>, st |-> "ok"]
  ELSE CHOOSE w \in
         {IF first.st # "ok" THEN first
          ELSE [out |-> first.out \o rest.out, st |-> rest.st]
          : first \in {WriteNode(tree, tr.sortedNodes[i], rev, attributes, globalNames, names)},
            rest \in {WriteNodes(tree, tr, i + 1, rev, attributes, globalNames, names)}} : TRUE

\* writeBinaryTree: the tree's own attribute table (or a 0 byte when the
\* table is the shared one), the packed child counts in traversal order, the
\* nodes.  loc is [map, rev]: attributes and attributesLookupReverse.
writeBinaryTree(tree, globalNames, globalAttributes, names, attributes, attributesLookupReverse) ==
  CHOOSE w \in
    {CHOOSE written \in
       {[out |-> (IF ~globalAttributes
                  THEN writeInt(Cardinality(DOMAIN loc.map)) \o AttributeTable(loc.rev)
                  ELSE writeByte(0))
                   \o PackCounts([i \in 1..NodeTotal(tree) |-> Len(tr.sortedChildren[i - 1])],
                                 1, 0, 0)
                   \o nodes.out,
         st |-> nodes.st]
        : nodes \in {WriteNodes(tree, tr, 0, loc.rev, loc.map, globalNames, names)}} : TRUE
     : loc \in {IF ~globalAttributes THEN InsertAttributes(tree.attributes, EmptyMap, <<>>)
                ELSE [map |-> attributes, rev |-> attributesLookupReverse]},
       tr \in {Traversal(tree)}} : TRUE

\* magic numbers of the file format
HeaderMagic == <<35, 84, 82, 69>>
TrailerMagic == <<69, 78, 68, 255>>

\* std::map<std::string, size_t> filled by insert({name, map.size()}) for
\* every non-empty name: [map, rev, count]
RECURSIVE InsertNames(_, _, _, _)
InsertNames(namesVec, map, rev, count) ==
  IF namesVec = <<>> THEN [map |-> map, rev |-> rev, count |-> count]
  ELSE IF Len(Head(namesVec)) = 0 THEN InsertNames(Tail(namesVec), map, rev, count)
  ELSE IF Head(namesVec) \in DOMAIN map
  THEN InsertNames(Tail(namesVec), map, rev, count + 1)
  ELSE InsertNames(Tail(namesVec), map @@ (Head(namesVec) :> Cardinality(DOMAIN map)),
                   Append(rev, Head(namesVec)), count + 1)

\* The scan of writeBinaryTrees over the collection (lines 547-616).
\* sc: [names, namesRev, attrs, attrsRev, perTreeNames, perTreeAttrs, st]

\* the test without its first conjunct
tooManyNewWhateverBefore(prevCount, size, count) == (size - prevCount) * 2 > count

\* prevCount != 0 && (size - prevCount) * 2 > count  (lines 600 and 605):
\* the table held something before the tree and more than half of what the
\* tree has is new
tooManyNew(prevCount, size, count) == prevCount # 0 /\ (size - prevCount) * 2 > count

\* One iteration of the scan of writeBinaryTrees over the collection (lines
\* 547-616), sc being [names, namesRev, attrs, attrsRev, perTreeNames,
\* perTreeAttrs, st]: the names of the internal nodes, then those of the
\* tips, and the attributes of tree t are inserted, and the two decisions
\* are taken from how many of them were new.
ScanTree(sc, t) ==
  CHOOSE next \in
    {IF nameIndex < 0 \/ nameIndex >= Len(t.nodeAttributes) \/ nameIndex >= Len(t.tipAttributes)
     THEN [sc EXCEPT !.st = "ub"]
     ELSE IF At(t.nodeAttributes, nameIndex).isNum \/ At(t.tipAttributes, nameIndex).isNum
     THEN [sc EXCEPT !.st = "throw"]
     ELSE
       CHOOSE decided \in
         {[names |-> n.map, namesRev |-> n.rev, attrs |-> a.map, attrsRev |-> a.rev,
           perTreeNames |->
             sc.perTreeNames
               \/ tooManyNew(Cardinality(DOMAIN sc.names), Cardinality(DOMAIN n.map), n.count),
           perTreeAttrs |->
             sc.perTreeAttrs
               \/ tooManyNew(Cardinality(DOMAIN sc.attrs), Cardinality(DOMAIN a.map),
                             IF Len(t.nodeAttributes) >= Len(t.tipAttributes)
                             THEN Len(t.nodeAttributes) ELSE Len(t.tipAttributes)),
           st |-> "ok"]
          : a \in {InsertAttributes(t.attributes, sc.attrs, sc.attrsRev)},
            n \in {InsertNames(At(t.nodeAttributes, nameIndex).s
                                 \o At(t.tipAttributes, nameIndex).s,
                               sc.names, sc.namesRev, 0)}} : TRUE
     : nameIndex \in {LastSlot(t.attributes, NAMEATTRIBUTE, FALSE)}} : TRUE

\* the loop from tree i (1-based) on, sc being the state after tree i - 1
RECURSIVE ScanTrees(_, _, _)
ScanTrees(trees, i, sc) ==
  IF i > Len(trees) \/ sc.st # "ok" \/ (sc.perTreeNames /\ sc.perTreeAttrs) THEN sc
  ELSE ScanTrees(trees, i + 1, ScanTree(sc, trees[i]))

\* the header byte chosen from the two decisions (lines 621-636)
HeaderByte(includeNamesPerTree, includeAttributesPerTree) ==
  IF ~includeNamesPerTree /\ ~includeAttributesPerTree THEN 3
  ELSE IF ~includeNamesPerTree /\ includeAttributesPerTree THEN 1
  ELSE IF includeNamesPerTree /\ ~includeAttributesPerTree THEN 2
  ELSE 0

RECURSIVE NameTable(_)
NameTable(rev) ==
  IF rev = <<>> THEN <<>> ELSE writeMyString(Head(rev)) \o NameTable(Tail(rev))

\* the loop over the trees (lines 661-665): acc is [out, st, addresses],
\* out holding the whole file so far, so that file->tellp() is Len(out)
RECURSIVE WriteRecords(_, _, _, _)
WriteRecords(trees, i, sc, acc) ==
  IF i > Len(trees) \/ acc.st # "ok" THEN acc
  ELSE WriteRecords(
         trees, i + 1, sc,
         CHOOSE next \in
           {[out |-> acc.out \o w.out, st |-> w.st,
             addresses |-> Append(acc.addresses, Len(acc.out))]
            : w \in {writeBinaryTree(trees[i], ~sc.perTreeNames, ~sc.perTreeAttrs, sc.names,
                                     sc.attrs, sc.attrsRev)}} : TRUE)

\* the address loop writing each offset one byte too far
WriteAddressesShifted(addresses) ==
  [k \in 1..(8 * Len(addresses)) |->
     writeInt64(addresses[((k - 1) \div 8) + 1] + 1)[((k - 1) % 8) + 1]]

RECURSIVE WriteAddresses(_)
WriteAddresses(addresses) ==
  IF addresses = <<>> THEN <<>>
  ELSE writeInt64(Head(addresses)) \o WriteAddresses(Tail(addresses))

\* writeBinaryTrees: [out, st, addresses, labelAddress].  After the scan
\* (ended as sc): magic number, header byte and the shared tables, the
\* records of the trees (recs), the additional data, the label section and
\* the trailer.
writeBinaryTrees(trees, additionalDataToCopy) ==
  CHOOSE w \in
    {IF sc.st # "ok" THEN [out |-> <<>>, st |-> sc.st, addresses |-> <<>>, labelAddress |-> 0]
     ELSE
       CHOOSE file \in
         {IF recs.st # "ok"
          THEN [out |-> recs.out, st |-> recs.st, addresses |-> recs.addresses,
                labelAddress |-> 0]
          ELSE [out |-> recs.out \o additionalDataToCopy
                          \o writeInt(Len(recs.addresses)) \o WriteAddresses(recs.addresses)
                          \o writeInt64(Len(recs.out) + Len(additionalDataToCopy))
                          \o TrailerMagic,
                st |-> "ok", addresses |-> recs.addresses,
                labelAddress |-> Len(recs.out) + Len(additionalDataToCopy)]
          : recs \in
              {WriteRecords(
                 trees, 1, sc,
                 [out |-> HeaderMagic
                            \o writeByte(HeaderByte(sc.perTreeNames, sc.perTreeAttrs))
                            \o (IF ~sc.perTreeNames
                                THEN writeInt(Cardinality(DOMAIN sc.names))
                                       \o NameTable(sc.namesRev)
                                ELSE <<>>)
                            \o (IF ~sc.perTreeAttrs
                                THEN writeInt(Cardinality(DOMAIN sc.attrs))
                                       \o AttributeTable(sc.attrsRev)
                                ELSE <<>>),
                  st |-> "ok", addresses |-> <<>>])}} : TRUE
     : sc \in {ScanTrees(trees, 1,
                         [names |-> EmptyMap, namesRev |-> <<>>, attrs |-> EmptyMap,
                          attrsRev |-> <<>>, perTreeNames |-> FALSE, perTreeAttrs |-> FALSE,
                          st |-> "ok"])}} : TRUE

\* beginWritingBinaryTrees announcing shared tables in the header byte
beginWritingSharedHeader == HeaderMagic \o writeByte(3)

\* beginWritingBinaryTrees
beginWritingBinaryTrees == HeaderMagic \o writeByte(0)

\* finishWritingBinaryTrees with the additional data left out of the offset
finishWritingIgnoringExtra(addresses, additionalDataToCopy) ==
  additionalDataToCopy
    \o writeInt(Len(addresses) - 1)
    \o [k \in 1..(8 * (Len(addresses) - 1)) |->
          writeInt64(addresses[((k - 1) \div 8) + 1])[((k - 1) % 8) + 1]]
    \o writeInt64(addresses[Len(addresses)])
    \o TrailerMagic

\* finishWritingBinaryTrees: addresses holds one entry per tree and a last
\* entry, the offset at which the additional data starts
finishWritingBinaryTrees(addresses, additionalDataToCopy) ==
  LET labelAddress == addresses[Len(addresses)] + Len(additionalDataToCopy)
  IN additionalDataToCopy
       \o writeInt(Len(addresses) - 1)
       \o WriteAddresses(SubSeq(addresses, 1, Len(addresses) - 1))
       \o writeInt64(labelAddress)
       \o TrailerMagic

\* ============================================================ binary reader
\* A reader step returns [st, val, s] with st as for the writer: "throw" is
\* an exception (a negative size handed to a std::vector constructor), "ub"
\* an out-of-range operator[], "alloc" a size above MaxAlloc (the structure
\* is larger than the model holds: the allocation throws or the program
\* goes on with it).

RECURSIVE readCharsLoop(_, _, _, _)
readCharsLoop(s, n, acc, g) ==
  IF n = 0 THEN [val |-> acc, s |-> s]
  ELSE LET r == readInt(s, g) IN readCharsLoop(r.s, n - 1, Append(acc, ToByte(r.val)), g)

readMyString(s, g) ==
  LET l == readInt(s, g) IN
  IF l.val < 0 THEN [st |-> "throw", val |-> <<>>, s |-> l.s]
  ELSE IF l.val > MaxAlloc THEN [st |-> "alloc", val |-> <<>>, s |-> l.s]
  ELSE LET c == readCharsLoop(l.s, l.val, <<>>, g) IN [st |-> "ok", val |-> c.val, s |-> c.s]

\* the loop reading n (name, type) pairs of an attribute table
RECURSIVE readAttributeTable(_, _, _, _)
readAttributeTable(s, n, acc, g) ==
  IF n <= 0 THEN [st |-> "ok", val |-> acc, s |-> s]
  ELSE IF n > MaxAlloc THEN [st |-> "alloc", val |-> acc, s |-> s]
  ELSE LET nm == readMyString(s, g) IN
       IF nm.st # "ok" THEN [st |-> nm.st, val |-> acc, s |-> nm.s]
       ELSE LET ty == readInt(nm.s, g)
            IN readAttributeTable(ty.s, n - 1, Append(acc, Attr(nm.val, ty.val = 2)), g)

\* while (currParent >= 0 && children[currParent].size() == addedChildren[currParent])
RECURSIVE Climb(_, _, _, _)
Climb(children, addedChildren, parents, currParent) ==
  IF currParent >= 0 /\ Len(At(children, currParent)) = At(addedChildren, currParent)
  THEN Climb(children, addedChildren, parents, At(parents, currParent))
  ELSE currParent

\* the topology loop of readBinaryTree (lines 337-362)
RECURSIVE ReadTopology(_, _)
ReadTopology(t, g) ==
  IF t.currParent < 0 \/ t.st # "ok" THEN t
  ELSE
    LET r == readShortInt(t.s, t.currByte, t.currIndex, g)
        currCount == r.val
    IN
    IF currCount < 0 THEN [t EXCEPT !.st = "throw", !.s = r.s]
    ELSE IF currCount > MaxAlloc \/ Len(t.parents) > MaxAlloc
    THEN [t EXCEPT !.st = "alloc", !.s = r.s]
    ELSE
      LET children1 == Append(t.children, [k \in 1..currCount |-> 0])
          tipCount1 == IF currCount = 0 THEN t.tipCount + 1 ELSE t.tipCount
          cp == Climb(children1, t.addedChildren, t.parents, t.currParent)
          newNode == Len(t.parents)
      IN
      IF cp >= 0
      THEN ReadTopology(
             [parents |-> Append(t.parents, cp),
              children |-> [children1 EXCEPT ![cp + 1][At(t.addedChildren, cp) + 1] = newNode],
              addedChildren |-> Append([t.addedChildren EXCEPT ![cp + 1] = @ + 1], 0),
              currParent |-> newNode, tipCount |-> tipCount1,
              s |-> r.s, currByte |-> r.currByte, currIndex |-> r.currIndex, st |-> "ok"], g)
      ELSE [t EXCEPT !.children = children1, !.currParent = cp, !.tipCount = tipCount1,
                     !.s = r.s, !.currByte = r.currByte, !.currIndex = r.currIndex]

\* one (attribute index, value) pair of node i; ns is [s, st, edgeLengths,
\* nodeSupport, nodeNames, nodeAttributes]
ReadPair(ns, i, attributes, globalNames, names, g) ==
  LET ai == readInt(ns.s, g)
      attributeIndex1 == ai.val
  IN
  IF attributeIndex1 < 0 \/ attributeIndex1 >= Len(attributes)
  THEN [ns EXCEPT !.st = "ub", !.s = ai.s]
  ELSE
    LET a == At(attributes, attributeIndex1)
        slot == attributeIndex1 + 1
    IN
    IF a.IsNumeric THEN
      LET d == readDouble(ai.s) IN
      IF equalCI(a.AttributeName, LENGTHATTRIBUTE)
      THEN [ns EXCEPT !.s = d.s, !.edgeLengths[i] = d.val,
                      !.nodeAttributes[slot][i] = NumVal(d.val)]
      ELSE IF equalCI(a.AttributeName, SUPPORTATTRIBUTE)
      THEN [ns EXCEPT !.s = d.s, !.nodeSupport[i] = d.val,
                      !.nodeAttributes[slot][i] = NumVal(d.val)]
      ELSE [ns EXCEPT !.s = d.s, !.nodeAttributes[slot][i] = NumVal(d.val)]
    ELSE IF ~equalCI(a.AttributeName, NAMEATTRIBUTE) THEN
      LET v == readMyString(ai.s, g) IN
      IF v.st # "ok" THEN [ns EXCEPT !.st = v.st, !.s = v.s]
      ELSE [ns EXCEPT !.s = v.s, !.nodeAttributes[slot][i] = StrVal(v.val)]
    ELSE IF ~globalNames THEN
      LET v == readMyString(ai.s, g) IN
      IF v.st # "ok" THEN [ns EXCEPT !.st = v.st, !.s = v.s]
      ELSE [ns EXCEPT !.s = v.s, !.nodeNames[i] = v.val,
                      !.nodeAttributes[slot][i] = StrVal(v.val)]
    ELSE
      LET b == readByte(ai.s, g) IN
      IF b.val = 0
      THEN [ns EXCEPT !.s = b.s, !.nodeNames[i] = <<>>,
                      !.nodeAttributes[slot][i] = StrVal(<<>>)]
      ELSE IF b.val <= 254 THEN
        LET index == readInt(seekg(b.s, -1, "cur"), g) IN
        IF index.val - 1 < 0 \/ index.val - 1 >= Len(names)
        THEN [ns EXCEPT !.st = "ub", !.s = index.s]
        ELSE [ns EXCEPT !.s = index.s, !.nodeNames[i] = At(names, index.val - 1),
                        !.nodeAttributes[slot][i] = StrVal(At(names, index.val - 1))]
      ELSE
        LET v == readMyString(b.s, g) IN
        IF v.st # "ok" THEN [ns EXCEPT !.st = v.st, !.s = v.s]
        ELSE [ns EXCEPT !.s = v.s, !.nodeNames[i] = v.val,
                        !.nodeAttributes[slot][i] = StrVal(v.val)]

RECURSIVE ReadPairs(_, _, _, _, _, _, _)
ReadPairs(ns, i, n, attributes, globalNames, names, g) ==
  IF n <= 0 \/ ns.st # "ok" THEN ns
  ELSE ReadPairs(ReadPair(ns, i, attributes, globalNames, names, g), i, n - 1,
                 attributes, globalNames, names, g)

\* the loop over the nodes (lines 408-470)
RECURSIVE ReadNodes(_, _, _, _, _, _, _)
ReadNodes(ns, i, nodeCount, attributes, globalNames, names, g) ==
  IF i >= nodeCount \/ ns.st # "ok" THEN ns
  ELSE LET attributeCount == readInt(ns.s, g) IN
       IF attributeCount.val > MaxAlloc THEN [ns EXCEPT !.st = "alloc", !.s = attributeCount.s]
       ELSE ReadNodes(ReadPairs([ns EXCEPT !.s = attributeCount.s], i, attributeCount.val,
                              attributes, globalNames, names, g),
                    i + 1, nodeCount, attributes, globalNames, names, g)

\* the elements of a 0-based vector (a function over 0..n-1) whose index
\* satisfies keep, in index order
RECURSIVE Pick(_, _, _, _)
Pick(f, i, n, keep) ==
  IF i >= n THEN <<>>
  ELSE (IF i \in keep THEN <<f[i]>> ELSE <<>>) \o Pick(f, i + 1, n, keep)

\* assembly of the phylo returned by readBinaryTree (lines 472-612)
AssembleTree(t, ns, attributes) ==
  LET nodeCount == Len(t.parents)
      tipCount == t.tipCount
      all == 0..(nodeCount - 1)
      tips == {i \in all : Len(At(t.children, i)) = 0}
      inner == all \ tips
      \* correspondences[i]
      corr == [i \in all |->
                 IF i \in tips THEN Cardinality({k \in tips : k < i})
                 ELSE Cardinality({k \in inner : k < i}) + tipCount]
      vec(j, keep) ==
        IF attributes[j].IsNumeric
        THEN NumVec(Pick([i \in all |-> ns.nodeAttributes[j][i].d], 0, nodeCount, keep))
        ELSE StrVec(Pick([i \in all |-> ns.nodeAttributes[j][i].s], 0, nodeCount, keep))
      tipAttributes == [j \in 1..Len(attributes) |-> vec(j, tips)]
      internalNodeAttributes == [j \in 1..Len(attributes) |-> vec(j, inner)]
      edges == [i \in 1..(nodeCount - 1) |-> <<corr[At(t.parents, i)], corr[i]>>]
      correspEdgeLengths == [i \in 1..(nodeCount - 1) |-> ns.edgeLengths[i]]
      nameAttributeIndex == LastSlot(attributes, NAMEATTRIBUTE, FALSE)
      supportAttributeIndex == LastSlot(attributes, SUPPORTATTRIBUTE, TRUE)
      foundName == /\ nameAttributeIndex >= 0
                   /\ \E x \in 1..Len(At(internalNodeAttributes, nameAttributeIndex).s) :
                        At(internalNodeAttributes, nameAttributeIndex).s[x] # <<>>
      supports == IF supportAttributeIndex >= 0
                  THEN At(internalNodeAttributes, supportAttributeIndex).d ELSE <<>>
      foundSupport == \E x \in 1..Len(supports) : ~supports[x].isNaN /\ supports[x].v > 0
  IN [Nnode |-> nodeCount - tipCount,
      rootEdge |-> ns.edgeLengths[0],
      edge |-> edges,
      tipLabel |-> Pick(ns.nodeNames, 0, nodeCount, tips),
      nodeLabel |-> IF foundName THEN At(internalNodeAttributes, nameAttributeIndex).s
                    ELSE IF foundSupport
                    THEN [x \in 1..Len(supports) |-> DoubleToString(supports[x])]
                    ELSE <<>>,
      edgeLength |-> correspEdgeLengths,
      tipAttributes |-> tipAttributes,
      nodeAttributes |-> internalNodeAttributes,
      attributes |-> attributes,
      hasEdgeLength |-> \E i \in 1..(nodeCount - 1) : ~correspEdgeLengths[i].isNaN,
      hasNodeLabel |-> foundName \/ foundSupport]

\* a default-constructed phylo
EmptyPhylo ==
  [Nnode |-> -1, rootEdge |-> NaN, edge |-> <<>>, tipLabel |-> <<>>, nodeLabel |-> <<>>,
   edgeLength |-> <<>>, tipAttributes |-> <<>>, nodeAttributes |-> <<>>, attributes |-> <<>>,
   hasEdgeLength |-> FALSE, hasNodeLabel |-> FALSE]

\* the attribute table a record starts with: the tree's own when the count
\* is positive, else the shared one (attributes0)
readRecordTable(s, attributes0, g) ==
  IF readInt(s, g).val > 0
  THEN readAttributeTable(readInt(s, g).s, readInt(s, g).val, <<>>, g)
  ELSE [st |-> "ok", val |-> attributes0, s |-> readInt(s, g).s]

\* the packed child counts: the first byte is read ahead, then the loop
readCounts(s, g) ==
  ReadTopology([parents |-> <<-1>>, children |-> <<>>, addedChildren |-> <<0>>,
                currParent |-> 0, tipCount |-> 0,
                s |-> readByte(s, g).s, currByte |-> readByte(s, g).val,
                currIndex |-> 0, st |-> "ok"], g)

\* no step back after the counts
seekAfterCountsNever(s, currIndex) == s

\* if (currIndex == 0) file->seekg(-1, std::ios_base::cur);
seekAfterCounts(s, currIndex) == IF currIndex = 0 THEN seekg(s, -1, "cur") ELSE s

\* readBinaryTree: [st, tree, s].  tab is the attribute table (the tree's
\* own when the record starts with a positive count), t the topology read
\* from the packed child counts, ns the vectors filled by the loop over the
\* nodes; the stream steps back one byte when the topology ended on a byte
\* boundary (lines 364-367).
readBinaryTree(s, globalNames, names, attributes0, g) ==
  CHOOSE result \in
    {IF tab.st # "ok" THEN [st |-> tab.st, tree |-> EmptyPhylo, s |-> tab.s]
     ELSE
       CHOOSE decoded \in
         {IF t.st # "ok" THEN [st |-> t.st, tree |-> EmptyPhylo, s |-> t.s]
          ELSE
            CHOOSE assembled \in
              {IF ns.st # "ok" THEN [st |-> ns.st, tree |-> EmptyPhylo, s |-> ns.s]
               ELSE [st |-> "ok", tree |-> AssembleTree(t, ns, tab.val), s |-> ns.s]
               : ns \in
                   {ReadNodes(
                      [s |-> seekAfterCounts(t.s, t.currIndex),
                       st |-> "ok",
                       edgeLengths |-> [i \in 0..(Len(t.parents) - 1) |-> NaN],
                       nodeSupport |-> [i \in 0..(Len(t.parents) - 1) |-> NaN],
                       nodeNames |-> [i \in 0..(Len(t.parents) - 1) |-> <<>>],
                       nodeAttributes |->
                         [j \in 1..Len(tab.val) |->
                            [i \in 0..(Len(t.parents) - 1) |->
                               IF tab.val[j].IsNumeric THEN NumVal(NaN) ELSE StrVal(<<>>)]]],
                      0, Len(t.parents), tab.val, globalNames, names, g)}} : TRUE
          : t \in {readCounts(tab.s, g)}} : TRUE
     : tab \in {readRecordTable(s, attributes0, g)}} : TRUE

\* hasValidTrailer: [val, s]
hasValidTrailer(s) ==
  LET savedPos == s.pos
      trailer == readBytes(seekg(s, -4, "end"), 4)
  IN [val |-> trailer.val = TrailerMagic, s |-> seekg(trailer.s, savedPos, "beg")]

\* a test of bits 4-7 only
ReservedBitsHigh(headerByte) == BitAnd(headerByte, 240)

\* (headerByte & 0xfc)
ReservedBits(headerByte) == BitAnd(headerByte, 252)

\* the tree name taken from the decoded tree (lines 710-726 and 768-784):
\* the root's value of the first "TreeName" slot, "tree" + std::to_string(i)
\* when there is none or it is empty
TreeNameOf(tree, i) ==
  LET hits == {j \in 1..Len(tree.attributes) :
                 equalCI(tree.attributes[j].AttributeName, TREENAMEATTRIBUTE)}
      treeNameIndex == IF hits = {} THEN -1
                       ELSE (CHOOSE j \in hits : \A k \in hits : j <= k) - 1
  IN IF treeNameIndex < 0 \/ Len(tree.nodeAttributes) = 0
     THEN [st |-> "ok", val |-> <<116, 114, 101, 101>> \o IntToString(i)]
     ELSE LET v == At(tree.nodeAttributes, treeNameIndex) IN
          IF v.isNum THEN [st |-> "throw", val |-> <<>>]
          ELSE IF Len(v.s) = 0 THEN [st |-> "ub", val |-> <<>>]
          ELSE [st |-> "ok",
                val |-> IF v.s[1] # <<>> THEN v.s[1]
                        ELSE <<116, 114, 101, 101>> \o IntToString(i)]

\* the loops filling treeAddresses, allNames and allAttributes
RECURSIVE readAddresses(_, _, _)
readAddresses(s, n, acc) ==
  IF n <= 0 THEN [val |-> acc, s |-> s]
  ELSE LET a == readInt64(s) IN readAddresses(a.s, n - 1, Append(acc, a.val))

RECURSIVE readNames(_, _, _, _)
readNames(s, n, acc, g) ==
  IF n <= 0 THEN [st |-> "ok", val |-> acc, s |-> s]
  ELSE LET x == readMyString(s, g) IN
       IF x.st # "ok" THEN [st |-> x.st, val |-> acc, s |-> x.s]
       ELSE readNames(x.s, n - 1, Append(acc, x.val), g)

\* a table size: a negative one makes the std::vector constructor throw
SizeStatus(n) == IF n < 0 THEN "throw" ELSE IF n > MaxAlloc THEN "alloc" ELSE "ok"

\* Lines 631-697 of readBinaryTrees: header checks, trailer test, label
\* section and the two global tables.  The result is [st, s, globalNames,
\* validTrailer, treeAddresses, allNames, allAttributes]; st = "fatal" is
\* Rcpp::stop, and a table that was not read is empty.  header, headerByte
\* and trailer are the first reads; addr, names and attrs are the three
\* tables as [st, val, s].
ReadPreamble(data, g) ==
  CHOOSE pre \in
    {IF header.val # HeaderMagic \/ ReservedBits(headerByte.val) # 0
     THEN [st |-> "fatal", s |-> IF header.val # HeaderMagic THEN header.s ELSE headerByte.s,
           globalNames |-> FALSE, validTrailer |-> FALSE,
           treeAddresses |-> <<>>, allNames |-> <<>>, allAttributes |-> <<>>]
     ELSE
       CHOOSE addressed \in
         {IF addr.st # "ok"
          THEN [st |-> addr.st, s |-> addr.s, globalNames |-> BitAnd(headerByte.val, 1) # 0,
                validTrailer |-> trailer.val,
                treeAddresses |-> <<>>, allNames |-> <<>>, allAttributes |-> <<>>]
          ELSE
            CHOOSE named \in
              {IF names.st # "ok"
               THEN [st |-> names.st, s |-> names.s,
                     globalNames |-> BitAnd(headerByte.val, 1) # 0,
                     validTrailer |-> trailer.val,
                     treeAddresses |-> addr.val, allNames |-> <<>>, allAttributes |-> <<>>]
               ELSE
                 CHOOSE tabled \in
                   {[st |-> attrs.st, s |-> attrs.s,
                     globalNames |-> BitAnd(headerByte.val, 1) # 0,
                     validTrailer |-> trailer.val,
                     treeAddresses |-> addr.val, allNames |-> names.val,
                     allAttributes |-> attrs.val]
                    : attrs \in
                        {IF BitAnd(headerByte.val, 2) = 0
                         THEN [st |-> "ok", val |-> <<>>, s |-> names.s]
                         ELSE IF SizeStatus(readInt(names.s, g).val) # "ok"
                         THEN [st |-> SizeStatus(readInt(names.s, g).val), val |-> <<>>,
                               s |-> readInt(names.s, g).s]
                         ELSE readAttributeTable(readInt(names.s, g).s,
                                                 readInt(names.s, g).val, <<>>, g)}} : TRUE
               : names \in
                   {IF BitAnd(headerByte.val, 1) = 0
                    THEN [st |-> "ok", val |-> <<>>, s |-> seekg(addr.s, 5, "beg")]
                    ELSE IF SizeStatus(readInt(seekg(addr.s, 5, "beg"), g).val) # "ok"
                    THEN [st |-> SizeStatus(readInt(seekg(addr.s, 5, "beg"), g).val),
                          val |-> <<>>, s |-> readInt(seekg(addr.s, 5, "beg"), g).s]
                    ELSE readNames(readInt(seekg(addr.s, 5, "beg"), g).s,
                                   readInt(seekg(addr.s, 5, "beg"), g).val, <<>>, g)}} : TRUE
          : addr \in
              {IF ~trailer.val THEN [st |-> "ok", val |-> <<>>, s |-> trailer.s]
               ELSE
                 CHOOSE listed \in
                   {IF SizeStatus(numOfTrees.val) # "ok"
                    THEN [st |-> SizeStatus(numOfTrees.val), val |-> <<>>, s |-> numOfTrees.s]
                    ELSE [st |-> "ok",
                          val |-> readAddresses(numOfTrees.s, numOfTrees.val, <<>>).val,
                          s |-> readAddresses(numOfTrees.s, numOfTrees.val, <<>>).s]
                    : numOfTrees \in
                        {readInt(seekg(readInt64(seekg(trailer.s, -12, "end")).s,
                                       readInt64(seekg(trailer.s, -12, "end")).val, "beg"),
                                 g)}} : TRUE}} : TRUE
     : header \in {readBytes(Stream(data), 4)},
       headerByte \in {readByte(readBytes(Stream(data), 4).s, g)},
       trailer \in {hasValidTrailer(readByte(readBytes(Stream(data), 4).s, g).s)}} : TRUE

\* the loop over treeAddresses (lines 705-730): acc is [st, trees,
\* treeNames, s], r what readBinaryTree returns for tree i and nm its name
RECURSIVE ReadByAddress(_, _, _, _)
ReadByAddress(pre, i, acc, g) ==
  IF i > Len(pre.treeAddresses) \/ acc.st # "ok" THEN acc
  ELSE ReadByAddress(
         pre, i + 1,
         CHOOSE next \in
           {IF r.st # "ok" THEN [acc EXCEPT !.st = r.st, !.s = r.s]
            ELSE CHOOSE named \in
                   {IF nm.st # "ok" THEN [acc EXCEPT !.st = nm.st, !.s = r.s]
                    ELSE [st |-> "ok", trees |-> Append(acc.trees, r.tree),
                          treeNames |-> Append(acc.treeNames, nm.val), s |-> r.s]
                    : nm \in {TreeNameOf(r.tree, i)}} : TRUE
            : r \in {readBinaryTree(seekg(acc.s, pre.treeAddresses[i], "beg"),
                                    pre.globalNames, pre.allNames, pre.allAttributes, g)}} : TRUE,
         g)

\* ============================================================== text codecs
\* Characters: ( 40  ) 41  , 44  / 47  : 58  ; 59  = 61  [ 91  ] 93  { 123
\* } 125  " 34  ' 39  \ 92  & 38  ! 33; (char)-1 is held as 255.

\* std::tolower in the "C" locale
tolower(c) == IF c >= 65 /\ c <= 90 THEN c + 32 ELSE c

\* ci_less: std::lexicographical_compare under tolower
ci_less(s1, s2) ==
  \E i \in 1..Len(s2) :
    /\ i <= Len(s1) + 1
    /\ \A k \in 1..(i - 1) : tolower(s1[k]) = tolower(s2[k])
    /\ (i = Len(s1) + 1 \/ tolower(s1[i]) < tolower(s2[i]))

\* std::map<std::string, T, ci_less>: the entries [key, val] in key order.
\* containsKey is map->count(key) > 0; two keys are the same entry when
\* neither is ci_less than the other.
containsKey(map, key) ==
  \E i \in 1..Len(map) : ~ci_less(map[i].key, key) /\ ~ci_less(key, map[i].key)

\* map[key] of an entry that is there
MapGet(map, key) ==
  map[CHOOSE i \in 1..Len(map) : ~ci_less(map[i].key, key) /\ ~ci_less(key, map[i].key)].val

\* map[key] = val: the entry keeps the key it was created with
MapSet(map, key, val) ==
  IF containsKey(map, key)
  THEN [i \in 1..Len(map) |->
          IF ~ci_less(map[i].key, key) /\ ~ci_less(key, map[i].key)
          THEN [key |-> map[i].key, val |-> val] ELSE map[i]]
  ELSE LET n == Cardinality({i \in 1..Len(map) : ci_less(map[i].key, key)})
       IN SubSeq(map, 1, n) \o <<[key |-> key, val |-> val]>> \o SubSeq(map, n + 1, Len(map))

\* trim: ltrim, then rtrim
trim(s) ==
  LET kept == {i \in 1..Len(s) : s[i] \notin Spaces}
  IN IF kept = {} THEN <<>>
     ELSE SubSeq(s, CHOOSE i \in kept : \A k \in kept : i <= k,
                    CHOOSE i \in kept : \A k \in kept : k <= i)

\* tryParse(std::string, int*) that takes no string for a number
tryParseIntNever(val) == FALSE

\* tryParse(std::string, int*): std::stoi reads white space, a sign and
\* decimal digits; TRUE when it took the whole string (the values of the
\* model stay far below INT_MAX, where stoi would throw)
tryParseInt(val) ==
  /\ Len(val) > 0
  /\ CHOOSE ok \in
       {CHOOSE whole \in {digitsEnd > i1 /\ digitsEnd = Len(val) + 1
                          : digitsEnd \in {SpanEnd(val, i1, Digits)}} : TRUE
        : i1 \in {IF SpanEnd(val, 1, Spaces) <= Len(val)
                       /\ val[SpanEnd(val, 1, Spaces)] \in {43, 45}
                  THEN SpanEnd(val, 1, Spaces) + 1 ELSE SpanEnd(val, 1, Spaces)}} : TRUE

\* ------------------------------------------------------------- tokenizer
\* The state of a tokenizer: the position in the string (srPosition) or the
\* file stream (s), the flags the caller owns, and c, the character the
\* last call returned.
Tokenizer(srPosition, s) ==
  [srPosition |-> srPosition, s |-> s, escaping |-> FALSE, escaped |-> FALSE,
   openQuotes |-> FALSE, openApostrophe |-> FALSE, eof |-> FALSE, c |-> 0]

\* the end of input: *eof = true, *escaped = false, return -1
TokenEof(tk) == [tk EXCEPT !.eof = TRUE, !.escaped = FALSE, !.c = 255]

\* the escaped character returned while escaping stays set
TokenFlagsKeepEscaping(tk, c) ==
  IF tk.escaping
  THEN [tk EXCEPT !.eof = FALSE, !.escaped = TRUE, !.c = c]
  ELSE IF ~tk.openQuotes /\ ~tk.openApostrophe
  THEN [tk EXCEPT !.eof = FALSE, !.escaped = FALSE, !.c = c, !.escaping = (c = 92),
                  !.openQuotes = (c = 34), !.openApostrophe = (c = 39)]
  ELSE IF tk.openQuotes
  THEN [tk EXCEPT !.eof = FALSE, !.escaped = FALSE, !.c = c, !.escaping = (c = 92),
                  !.openQuotes = (c # 34)]
  ELSE [tk EXCEPT !.eof = FALSE, !.escaped = FALSE, !.c = c, !.escaping = (c = 92),
                  !.openApostrophe = (c # 39)]

\* what both nextToken functions do with the character c they have read
\* (after the white space, when it is skipped): lines 106-168 and 187-248
TokenFlags(tk, c) ==
  IF tk.escaping
  THEN [tk EXCEPT !.eof = FALSE, !.escaping = FALSE, !.escaped = TRUE, !.c = c]
  ELSE IF ~tk.openQuotes /\ ~tk.openApostrophe
  THEN [tk EXCEPT !.eof = FALSE, !.escaped = FALSE, !.c = c, !.escaping = (c = 92),
                  !.openQuotes = (c = 34), !.openApostrophe = (c = 39)]
  ELSE IF tk.openQuotes
  THEN [tk EXCEPT !.eof = FALSE, !.escaped = FALSE, !.c = c, !.escaping = (c = 92),
                  !.openQuotes = (c # 34)]
  ELSE [tk EXCEPT !.eof = FALSE, !.escaped = FALSE, !.c = c, !.escaping = (c = 92),
                  !.openApostrophe = (c # 39)]

\* nextToken(std::string*, ...): white space is skipped outside quotes and
\* when not escaping
nextToken(source, tk) ==
  IF tk.srPosition >= Len(source) THEN TokenEof(tk)
  ELSE IF tk.escaping \/ tk.openQuotes \/ tk.openApostrophe
  THEN TokenFlags([tk EXCEPT !.srPosition = @ + 1], source[tk.srPosition + 1])
  ELSE CHOOSE r \in
         {IF p > Len(source) THEN TokenEof([tk EXCEPT !.srPosition = Len(source)])
          ELSE TokenFlags([tk EXCEPT !.srPosition = p], source[p])
          : p \in {SpanEnd(source, tk.srPosition + 1, Spaces)}} : TRUE

\* nextToken(std::fstream*, ...): source->eof() is the flag a read past the
\* end has set, so the first call at the end of the file still reads:
\* get(c) fails and c keeps what the uninitialised char held (g).  In the
\* white-space loop a failing get leaves the space in c and the next test
\* of eof() ends the call.
nextTokenFile(tk, g) ==
  IF tk.s.fail THEN TokenEof(tk)
  ELSE CHOOSE r \in
         {IF tk.escaping \/ tk.openQuotes \/ tk.openApostrophe \/ b.val \notin Spaces
          THEN TokenFlags([tk EXCEPT !.s = b.s], b.val)
          ELSE CHOOSE skipped \in
                 {IF p > Len(tk.s.data)
                  THEN TokenEof([tk EXCEPT !.s = [b.s EXCEPT !.pos = Len(tk.s.data),
                                                             !.fail = TRUE]])
                  ELSE TokenFlags([tk EXCEPT !.s = [b.s EXCEPT !.pos = p]], tk.s.data[p])
                  : p \in {SpanEnd(tk.s.data, b.s.pos + 1, Spaces)}} : TRUE
          : b \in {readByte(tk.s, g)}} : TRUE

\* a ] left in the word it ends
WordDelimitersWithoutClose == {91, 44, 59}

\* the characters that are words of their own: [ ] , ;
WordDelimiters == {91, 93, 44, 59}

\* nextWord: [word, s, eof].  The first get may fail (c is then what the
\* uninitialised char held, g, and nothing is appended); a delimiter
\* returns at once with *eof = false; otherwise characters are taken while
\* peek() shows neither white space nor a delimiter, peek() at the end of
\* the file setting eof.
nextWord(s, g) ==
  CHOOSE r \in
    {IF b.s.fail
     THEN [word |-> <<>>, s |-> b.s, eof |-> b.val \notin WordDelimiters]
     ELSE IF p > Len(s.data)
     THEN [word |-> <<>>, s |-> [b.s EXCEPT !.pos = Len(s.data), !.fail = TRUE], eof |-> TRUE]
     ELSE IF s.data[p] \in WordDelimiters
     THEN [word |-> <<s.data[p]>>, s |-> [b.s EXCEPT !.pos = p], eof |-> FALSE]
     ELSE CHOOSE w \in
            {[word |-> SubSeq(s.data, p, e - 1),
              s |-> [b.s EXCEPT !.pos = e - 1, !.fail = (e > Len(s.data))],
              eof |-> e > Len(s.data)]
             : e \in {SpanEnd(s.data, p + 1, (0..255) \ (Spaces \cup WordDelimiters))}} : TRUE
     : b \in {readByte(s, g)},
       p \in {IF readByte(s, g).s.fail \/ readByte(s, g).val \notin Spaces
              THEN readByte(s, g).s.pos
              ELSE SpanEnd(s.data, readByte(s, g).s.pos + 1, Spaces)}} : TRUE

\* ------------------------------------------------------- parseAttributes
\* value starts and ends with " or starts and ends with ' (a lone quote
\* character does both)
IsQuoted(value) ==
  /\ Len(value) > 0
  /\ \/ value[1] = 34 /\ value[Len(value)] = 34
     \/ value[1] = 39 /\ value[Len(value)] = 39

\* "Unknown" whatever the node has
UnknownNameFixed(attributes) == <<85, 110, 107, 110, 111, 119, 110>>

\* "Unknown", or "Unknown" + ind for the first ind >= 2 that is free
UnknownName(attributes) ==
  IF ~containsKey(attributes, <<85, 110, 107, 110, 111, 119, 110>>)
  THEN <<85, 110, 107, 110, 111, 119, 110>>
  ELSE <<85, 110, 107, 110, 111, 119, 110>>
         \o IntToString(CHOOSE ind \in 2..(Len(attributes) + 2) :
              \A k \in 2..ind :
                containsKey(attributes, <<85, 110, 107, 110, 111, 119, 110>> \o IntToString(k))
                  <=> k < ind)

\* the attribute is absent, or an empty string / a NaN
Unset(attributes, key) ==
  ~containsKey(attributes, key) \/ ~IsSet(MapGet(attributes, key))

\* lines 376-535: what a separator (or the end of the input) does with the
\* name and the value collected so far.  [attributes, st]; st is "throw"
\* when std::stod throws.
CommitAttribute(pa, childCount) ==
  IF pa.attributeValue # <<>>
  THEN CHOOSE r \in
         {IF equalCI(name, NAMEATTRIBUTE)
          THEN [st |-> "ok",
                attributes |->
                  MapSet(pa.attributes, <<78, 97, 109, 101>>,
                         StrVal(IF IsQuoted(pa.attributeValue)
                                THEN SubSeq(pa.attributeValue, 2, Len(pa.attributeValue) - 1)
                                ELSE pa.attributeValue))]
          ELSE IF equalCI(name, SUPPORTATTRIBUTE)
          THEN [st |-> IF d.ok THEN "ok" ELSE "throw",
                attributes |->
                  IF d.ok THEN MapSet(pa.attributes, <<83, 117, 112, 112, 111, 114, 116>>,
                                      NumVal(d.val))
                  ELSE pa.attributes]
          ELSE IF equalCI(name, LENGTHATTRIBUTE)
          THEN [st |-> IF d.ok THEN "ok" ELSE "throw",
                attributes |->
                  IF d.ok THEN MapSet(pa.attributes, <<76, 101, 110, 103, 116, 104>>,
                                      NumVal(d.val))
                  ELSE pa.attributes]
          ELSE [st |-> "ok",
                attributes |->
                  MapSet(pa.attributes, name,
                         IF d.ok /\ d.p = Len(pa.attributeValue) THEN NumVal(d.val)
                         ELSE StrVal(IF IsQuoted(pa.attributeValue)
                                     THEN SubSeq(pa.attributeValue, 2,
                                                 Len(pa.attributeValue) - 1)
                                     ELSE pa.attributeValue))]
          : name \in {SubSeq(pa.attributeName,
                             1 + (IF Len(pa.attributeName) > 0 /\ pa.attributeName[1] = 38
                                  THEN (IF Len(pa.attributeName) > 1 /\ pa.attributeName[2] = 33
                                        THEN 2 ELSE 1)
                                  ELSE IF Len(pa.attributeName) > 0 /\ pa.attributeName[1] = 33
                                  THEN 1 ELSE 0),
                             Len(pa.attributeName))},
            d \in {stod(pa.attributeValue)}} : TRUE
  ELSE IF pa.attributeName = <<>> \/ pa.lastSeparator \notin {58, 47, 44}
  THEN [st |-> "ok", attributes |-> pa.attributes]
  ELSE CHOOSE r \in
         {[st |-> "ok",
           attributes |->
             IF pa.lastSeparator = 58
             THEN (IF t.ok THEN MapSet(pa.attributes, <<76, 101, 110, 103, 116, 104>>,
                                       NumVal(t.val))
                   ELSE MapSet(pa.attributes, UnknownName(pa.attributes),
                               StrVal(pa.attributeName)))
             ELSE IF pa.lastSeparator = 47
             THEN (IF t.ok THEN MapSet(pa.attributes, <<83, 117, 112, 112, 111, 114, 116>>,
                                       NumVal(t.val))
                   ELSE MapSet(pa.attributes, UnknownName(pa.attributes),
                               StrVal(pa.attributeName)))
             ELSE IF /\ Unset(pa.attributes, <<78, 97, 109, 101>>)
                     /\ ~pa.withinBrackets /\ ~pa.closedOuterBrackets
                     /\ \/ IsQuoted(pa.attributeName)
                        \/ /\ childCount = 0
                           /\ Unset(pa.attributes, <<78, 97, 109, 101>>)
                           /\ Unset(pa.attributes, <<76, 101, 110, 103, 116, 104>>)
                           /\ Unset(pa.attributes, <<83, 117, 112, 112, 111, 114, 116>>)
                        \/ ~tryParseInt(IF value = <<>> THEN <<>> ELSE <<value[1]>>)
             THEN MapSet(pa.attributes, <<78, 97, 109, 101>>, StrVal(value))
             ELSE IF Unset(pa.attributes, <<83, 117, 112, 112, 111, 114, 116>>) /\ v.ok
             THEN MapSet(pa.attributes, <<83, 117, 112, 112, 111, 114, 116>>, NumVal(v.val))
             ELSE MapSet(pa.attributes, UnknownName(pa.attributes), StrVal(value))]
          : t \in {tryParse(pa.attributeName)},
            value \in {IF IsQuoted(pa.attributeName)
                       THEN SubSeq(pa.attributeName, 2, Len(pa.attributeName) - 1)
                       ELSE pa.attributeName},
            v \in {tryParse(IF IsQuoted(pa.attributeName)
                            THEN SubSeq(pa.attributeName, 2, Len(pa.attributeName) - 1)
                            ELSE pa.attributeName)}} : TRUE

\* one iteration of while (!(*eof)) (lines 336-614).  c2 is the character
\* handled: a ',' when the outer brackets have just closed, a ',' in place
\* of a '[' met while start is set.  after is what the three copies of
\* "if (closedOuterBrackets) ... if (expectedClosingBrackets != '\0') ..."
\* leave.
parseAttributesStep(sr, pa, childCount) ==
  CHOOSE next \in
    {LET plain == ~tk.escaped /\ ~tk.openQuotes /\ ~tk.openApostrophe
         opens == pa.start /\ tk.c = 91
         c2 == IF pa.start /\ tk.c = 91 THEN 44 ELSE tk.c
         after ==
           [pa EXCEPT
              !.tk = tk,
              !.closedOuterBrackets = FALSE,
              !.expectedClosingBrackets =
                 IF pa.closedOuterBrackets THEN 0
                 ELSE IF pa.start /\ tk.c = 91 THEN 93 ELSE @,
              !.start = pa.closedOuterBrackets \/ (pa.start /\ tk.c # 91),
              !.withinBrackets =
                 IF pa.closedOuterBrackets THEN FALSE
                 ELSE IF (pa.start /\ tk.c = 91) \/ pa.expectedClosingBrackets # 0 THEN TRUE
                 ELSE @]
     IN
     IF c2 = 61 /\ plain
     THEN [after EXCEPT !.nameFinished = TRUE]
     ELSE IF (tk.eof \/ (c2 \in {58, 47, 44} /\ pa.openSquareCount = 0
                           /\ pa.openCurlyCount = 0)) /\ plain
     THEN CHOOSE done \in
            {[after EXCEPT !.attributes = commit.attributes, !.st = commit.st,
                           !.lastSeparator = c2, !.nameFinished = FALSE,
                           !.attributeName = <<>>, !.attributeValue = <<>>]
             : commit \in {CommitAttribute(pa, childCount)}} : TRUE
     ELSE CHOOSE appended \in
            {[after EXCEPT
                !.openSquareCount =
                   IF plain /\ c2 = 91 THEN @ + 1
                   ELSE IF plain /\ c2 = 93 /\ @ > 0 THEN @ - 1 ELSE @,
                !.openCurlyCount =
                   IF plain /\ c2 = 123 THEN @ + 1
                   ELSE IF plain /\ c2 = 125 /\ @ > 0 THEN @ - 1 ELSE @,
                !.closedOuterBrackets = closes,
                !.attributeName = IF ~closes /\ ~pa.nameFinished THEN Append(@, c2) ELSE @,
                !.attributeValue = IF ~closes /\ pa.nameFinished THEN Append(@, c2) ELSE @]
             : closes \in {/\ plain /\ c2 = 93 /\ pa.openSquareCount = 0
                           /\ after.expectedClosingBrackets = 93}} : TRUE
     : tk \in {IF pa.closedOuterBrackets THEN [pa.tk EXCEPT !.c = 44]
               ELSE nextToken(sr, pa.tk)}} : TRUE

RECURSIVE parseAttributesLoop(_, _, _, _)
\* while (!(*eof)), left at once when std::stod has thrown.  An iteration
\* takes a character, or follows one that has closed the outer brackets, or
\* meets the end, so n, twice the characters plus two, bounds the
\* iterations; the first half of them is run, then the rest.
parseAttributesLoop(sr, pa, childCount, n) ==
  IF pa.tk.eof \/ pa.st # "ok" THEN pa
  ELSE IF n <= 1 THEN parseAttributesStep(sr, pa, childCount)
  ELSE CHOOSE after \in
         {parseAttributesLoop(sr, half, childCount, n - (n \div 2))
          : half \in {parseAttributesLoop(sr, pa, childCount, n \div 2)}} : TRUE

\* parseAttributes(sr, &srPosition, &eof, &attributes, childCount):
\* [st, attributes, srPosition, eof].  After the loop a "prob" attribute
\* becomes the "Support" that is still unset (lines 617-632).
parseAttributes(sr, srPosition, eof, attributes, childCount) ==
  CHOOSE r \in
    {[st |-> pa.st, srPosition |-> pa.tk.srPosition, eof |-> pa.tk.eof,
      attributes |->
        IF pa.st = "ok" /\ Unset(pa.attributes, <<83, 117, 112, 112, 111, 114, 116>>)
                        /\ containsKey(pa.attributes, <<112, 114, 111, 98>>)
        THEN MapSet(pa.attributes, <<83, 117, 112, 112, 111, 114, 116>>,
                    IF MapGet(pa.attributes, <<112, 114, 111, 98>>).isNum
                    THEN NumVal(MapGet(pa.attributes, <<112, 114, 111, 98>>).d)
                    ELSE NumVal(tryParse(MapGet(pa.attributes, <<112, 114, 111, 98>>).s).val))
        ELSE pa.attributes]
     : pa \in {parseAttributesLoop(
                 sr,
                 [tk |-> [Tokenizer(srPosition, Stream(<<>>)) EXCEPT !.eof = eof],
                  attributeValue |-> <<>>, attributeName |-> <<>>,
                  openSquareCount |-> 0, openCurlyCount |-> 0, nameFinished |-> FALSE,
                  lastSeparator |-> 44, start |-> TRUE, closedOuterBrackets |-> FALSE,
                  withinBrackets |-> FALSE, expectedClosingBrackets |-> 0,
                  attributes |-> attributes, st |-> "ok"],
                 childCount,
                 2 * Len(sr) + 2)}} : TRUE

\* ------------------------------------------------------------- parseNWKA
RECURSIVE ScanChildren(_, _, _)
\* while (!closed && !eof) (lines 671-721): the characters of the children
\* are collected (white space outside quotes is gone) and the positions of
\* the commas at depth 0 are noted.  n bounds the iterations, as in
\* parseAttributesLoop.
ScanChildren(source, sc, n) ==
  IF sc.closed \/ sc.tk.eof THEN sc
  ELSE IF n <= 1
  THEN CHOOSE next \in
         {LET structural == ~tk.escaped /\ ~tk.openQuotes /\ ~tk.openApostrophe
              closes == /\ ~tk.escaped /\ ~tk.openQuotes /\ ~tk.openApostrophe
                        /\ tk.c = 41 /\ sc.openCount = 0
          IN [sc EXCEPT
                !.tk = tk,
                !.closed = closes,
                !.openCount = IF structural /\ tk.c = 40 THEN @ + 1
                              ELSE IF structural /\ tk.c = 41 /\ @ > 0 THEN @ - 1 ELSE @,
                !.openSquareCount = IF structural /\ tk.c = 91 THEN @ + 1
                                    ELSE IF structural /\ tk.c = 93 THEN @ - 1 ELSE @,
                !.openCurlyCount = IF structural /\ tk.c = 123 THEN @ + 1
                                   ELSE IF structural /\ tk.c = 125 THEN @ - 1 ELSE @,
                !.commas = IF /\ structural /\ tk.c = 44 /\ sc.openCount = 0
                              /\ sc.openSquareCount = 0 /\ sc.openCurlyCount = 0
                           THEN Append(@, sc.position) ELSE @,
                !.childrenBuilder = IF ~closes /\ ~tk.eof THEN Append(@, tk.c) ELSE @,
                !.position = IF ~closes /\ ~tk.eof THEN @ + 1 ELSE @]
          : tk \in {nextToken(source, sc.tk)}} : TRUE
  ELSE CHOOSE after \in
         {ScanChildren(source, half, n - (n \div 2))
          : half \in {ScanChildren(source, sc, n \div 2)}} : TRUE

\* the pieces between all the commas of childrenBuilder, whatever encloses
\* them
SplitChildrenAtEveryComma(sc) ==
  LET F[k \in 0..Len(sc.childrenBuilder)] ==
        IF k = 0 THEN <<>>
        ELSE IF sc.childrenBuilder[k] = 44 THEN Append(F[k - 1], k - 1) ELSE F[k - 1]
      commas == F[Len(sc.childrenBuilder)]
  IN IF commas = <<>> THEN <<sc.childrenBuilder>>
     ELSE [i \in 1..(Len(commas) + 1) |->
             SubSeq(sc.childrenBuilder,
                    (IF i = 1 THEN 0 ELSE commas[i - 1] + 1) + 1,
                    IF i <= Len(commas) THEN commas[i] ELSE Len(sc.childrenBuilder))]

\* the children of a node: the pieces of childrenBuilder between the commas
\* (lines 723-738)
SplitChildren(sc) ==
  IF sc.commas = <<>> THEN <<sc.childrenBuilder>>
  ELSE [i \in 1..(Len(sc.commas) + 1) |->
          SubSeq(sc.childrenBuilder,
                 (IF i = 1 THEN 0 ELSE sc.commas[i - 1] + 1) + 1,
                 IF i <= Len(sc.commas) THEN sc.commas[i] ELSE Len(sc.childrenBuilder))]

RECURSIVE parseNWKA(_, _, _)
RECURSIVE parseNWKAChildren(_, _, _, _)
\* parseNWKA(source, &currIndex, allParents, allChildren, allAttributes,
\* &tipCount, parent): [acc, ret], acc holding the four outputs, currIndex,
\* tipCount and st.  st is "throw" when parseAttributes threw and "ub" for
\* an empty source: find(";", length() - 1) == length() - 1 holds for it
\* (both are npos) and erase(end() - 1, end()) is applied to an empty string.
parseNWKA(source0, acc, parent) ==
  IF acc.st # "ok" THEN [acc |-> acc, ret |-> -1]
  ELSE IF trim(source0) = <<>> THEN [acc |-> [acc EXCEPT !.st = "ub"], ret |-> -1]
  ELSE
    CHOOSE r \in
      {IF Len(source) > 0 /\ source[1] = 40
       THEN CHOOSE node \in
              {CHOOSE filled \in
                 {parseNWKAChildren(
                    SplitChildren(sc), 1,
                    [acc EXCEPT !.allParents = Append(@, parent),
                                !.allChildren = Append(@, <<>>),
                                !.allAttributes = Append(@, at.attributes),
                                !.currIndex = @ + 1,
                                !.st = at.st],
                    acc.currIndex)
                  : at \in {parseAttributes(source, sc.tk.srPosition, sc.tk.eof, <<>>,
                                            Len(SplitChildren(sc)))}} : TRUE
               : sc \in {ScanChildren(source,
                                      [tk |-> Tokenizer(1, Stream(<<>>)), closed |-> FALSE,
                                       openCount |-> 0, openSquareCount |-> 0,
                                       openCurlyCount |-> 0, commas |-> <<>>,
                                       position |-> 0, childrenBuilder |-> <<>>],
                                      Len(source) + 1)}} : TRUE
       ELSE CHOOSE tip \in
              {[acc |-> [acc EXCEPT !.allParents = Append(@, parent),
                                    !.allChildren = Append(@, <<>>),
                                    !.allAttributes = Append(@, at.attributes),
                                    !.currIndex = @ + 1,
                                    !.tipCount = @ + 1,
                                    !.st = at.st],
                ret |-> acc.currIndex]
               : at \in {parseAttributes(source, 0, FALSE, <<>>, 0)}} : TRUE
       : source \in {IF trim(source0)[Len(trim(source0))] = 59
                     THEN SubSeq(trim(source0), 1, Len(trim(source0)) - 1)
                     ELSE trim(source0)}} : TRUE

\* for (i < children.size()): allChildren[myIndex].push_back(parseNWKA(...))
parseNWKAChildren(children, i, acc, myIndex) ==
  IF i > Len(children) \/ acc.st # "ok" THEN [acc |-> acc, ret |-> myIndex]
  ELSE parseNWKAChildren(
         children, i + 1,
         CHOOSE pushed \in
           {[r.acc EXCEPT !.allChildren[myIndex + 1] = Append(@, r.ret)]
            : r \in {parseNWKA(children[i], acc, myIndex)}} : TRUE,
         myIndex)

\* ---------------------------------------------------------- convertToPhylo
\* the body of the loop over a node's attributes (lines 887-930, 960-1008):
\* the tip label is taken from a text "name", the slot of the attribute is
\* found or added, and the value is stored at index slot of the tip or
\* node vector
StoreAttribute(tbr, entry, isTip, slot, tipCount, nodeCount) ==
  CHOOSE stored \in
    {LET attrIndex == IF found < 0 THEN Len(tbr.attributes) ELSE found
         withSlot ==
           IF found >= 0 THEN tbr
           ELSE [tbr EXCEPT
                   !.attributes = Append(@, Attr(entry.key, entry.val.isNum)),
                   !.tipAttributes =
                      Append(@, IF entry.val.isNum THEN NumVec([k \in 1..tipCount |-> NaN])
                                ELSE StrVec([k \in 1..tipCount |-> <<>>])),
                   !.nodeAttributes =
                      Append(@, IF entry.val.isNum THEN NumVec([k \in 1..nodeCount |-> NaN])
                                ELSE StrVec([k \in 1..nodeCount |-> <<>>]))]
     IN IF isTip
        THEN [withSlot EXCEPT
                !.tipLabel[slot + 1] =
                   IF equalCI(entry.key, NAMEATTRIBUTE) /\ ~entry.val.isNum
                   THEN entry.val.s ELSE @,
                !.tipAttributes[attrIndex + 1] =
                   IF entry.val.isNum THEN [@ EXCEPT !.d[slot + 1] = entry.val.d]
                   ELSE [@ EXCEPT !.s[slot + 1] = entry.val.s]]
        ELSE [withSlot EXCEPT
                !.nodeAttributes[attrIndex + 1] =
                   IF entry.val.isNum THEN [@ EXCEPT !.d[slot + 1] = entry.val.d]
                   ELSE [@ EXCEPT !.s[slot + 1] = entry.val.s]]
     : found \in {attributeIndex(tbr.attributes, Attr(entry.key, entry.val.isNum))}} : TRUE

\* a numeric, non-NaN "Length" of a node, NaN otherwise
LengthOf(attributes) ==
  IF containsKey(attributes, <<76, 101, 110, 103, 116, 104>>)
       /\ MapGet(attributes, <<76, 101, 110, 103, 116, 104>>).isNum
  THEN MapGet(attributes, <<76, 101, 110, 103, 116, 104>>).d
  ELSE NaN

\* one counter for the tips and the internal nodes alike
nodeCorrespOneCounter(inner, tipIndex, nonTipIndex, tipCount) == tipIndex + nonTipIndex + 1

\* nodeCorresp[i] (lines 864-865 and 934-935): the counter of the internal
\* nodes, raised and put after the tips, or the counter of the tips, raised
nodeCorresp(inner, tipIndex, nonTipIndex, tipCount) ==
  IF inner THEN nonTipIndex + 1 + tipCount ELSE tipIndex + 1

\* one iteration of the loop over the nodes (lines 860-1010), i being the
\* 0-based index of the node in parse order; cv holds tbr, tipIndex,
\* nonTipIndex and nodeCorresp
ConvertNode(all, cv, i) ==
  CHOOSE next \in
    {LET parent == all.allParents[i + 1]
         entries == all.allAttributes[i + 1]
         withEdge ==
           IF parent < 0 THEN cv.tbr
           ELSE [cv.tbr EXCEPT
                   !.edge[i] = <<cv.nodeCorresp[parent + 1] - 1, id - 1>>,
                   !.edgeLength[i] = LengthOf(all.allAttributes[i + 1]),
                   !.hasEdgeLength = @ \/ ~LengthOf(all.allAttributes[i + 1]).isNaN]
         G[j \in 0..Len(entries)] ==
           IF j = 0 THEN withEdge
           ELSE StoreAttribute(G[j - 1], entries[j], ~inner,
                               (IF inner THEN id - all.tipCount ELSE id) - 1,
                               all.tipCount, Len(all.allParents) - all.tipCount)
     IN [tbr |-> G[Len(entries)],
         tipIndex |-> IF inner THEN cv.tipIndex ELSE cv.tipIndex + 1,
         nonTipIndex |-> IF inner THEN cv.nonTipIndex + 1 ELSE cv.nonTipIndex,
         nodeCorresp |-> Append(cv.nodeCorresp, id)]
     : inner \in {Len(all.allChildren[i + 1]) > 0},
       id \in {nodeCorresp(Len(all.allChildren[i + 1]) > 0, cv.tipIndex, cv.nonTipIndex,
                           all.tipCount)}} : TRUE

\* convertToPhylo(allParents, allChildren, allAttributes, tipCount): the
\* loop over the nodes, then the node labels: the "Name" values when one is
\* not empty, else std::to_string of the "Support" values when one is > 0
convertToPhylo(all) ==
  CHOOSE tree \in
    {LET nameAttributeIndex == attributeIndex(tbr.attributes, Attr(<<78, 97, 109, 101>>, FALSE))
         supportAttributeIndex ==
           attributeIndex(tbr.attributes, Attr(<<83, 117, 112, 112, 111, 114, 116>>, TRUE))
         names == IF nameAttributeIndex >= 0 THEN At(tbr.nodeAttributes, nameAttributeIndex).s
                  ELSE <<>>
         supports == IF supportAttributeIndex >= 0
                     THEN At(tbr.nodeAttributes, supportAttributeIndex).d ELSE <<>>
         foundName == \E k \in 1..Len(names) : names[k] # <<>>
         foundSupport == \E k \in 1..Len(supports) : ~supports[k].isNaN /\ supports[k].v > 0
     IN [tbr EXCEPT
           !.nodeLabel = IF foundName THEN names
                         ELSE IF foundSupport
                         THEN [k \in 1..Len(supports) |-> DoubleToString(supports[k])]
                         ELSE @,
           !.hasNodeLabel = foundName \/ foundSupport]
     : tbr \in
         {LET n == Len(all.allParents)
              F[i \in 0..n] ==
                IF i = 0
                THEN [tbr |-> [EmptyPhylo EXCEPT
                                 !.Nnode = n - all.tipCount,
                                 !.rootEdge = LengthOf(all.allAttributes[1]),
                                 !.edgeLength = [k \in 1..(n - 1) |-> Dbl(0)],
                                 !.edge = [k \in 1..(n - 1) |-> <<>>],
                                 !.tipLabel = [k \in 1..all.tipCount |-> <<>>],
                                 !.nodeLabel = [k \in 1..(n - all.tipCount) |-> <<>>]],
                      tipIndex |-> 0, nonTipIndex |-> 0, nodeCorresp |-> <<>>]
                ELSE ConvertNode(all, F[i - 1], i - 1)
          IN F[n].tbr}} : TRUE

\* parseNWKAStringOneTree: [st, tree].  What precedes the first '(' is the
\* tree name, stored as the root's "TreeName" unless the root has one.
parseNWKAStringOneTree(source) ==
  CHOOSE r \in
    {IF p.acc.st # "ok" THEN [st |-> p.acc.st, tree |-> EmptyPhylo]
     ELSE [st |-> "ok",
           tree |->
             convertToPhylo(
               IF ~containsKey(p.acc.allAttributes[1], <<84, 114, 101, 101, 78, 97, 109, 101>>)
                    /\ index > 1 /\ index <= Len(source)
               THEN [p.acc EXCEPT
                       !.allAttributes[1] =
                          MapSet(@, <<84, 114, 101, 101, 78, 97, 109, 101>>,
                                 StrVal(SubSeq(source, 1, index - 1)))]
               ELSE p.acc)]
     : index \in {SpanEnd(source, 1, (0..255) \ {40})},
       p \in {parseNWKA(IF SpanEnd(source, 1, (0..255) \ {40}) <= Len(source)
                        THEN SubSeq(source, SpanEnd(source, 1, (0..255) \ {40}), Len(source))
                        ELSE source,
                        [allParents |-> <<>>, allChildren |-> <<>>, allAttributes |-> <<>>,
                         currIndex |-> 0, tipCount |-> 0, st |-> "ok"],
                        -1)}} : TRUE

\* ----------------------------------------------------------- NWKA writer
\* A writer returns [out, st]: the characters it appends and how it ended.

\* the block of an internal node without its "Name", whatever was written
\* in the place of the label
AttributeBlockNeverName(tree, vecs, k, isTip, hasSupport) ==
  CHOOSE w \in
    {LET listed == {j \in 1..Len(tree.attributes) :
                      /\ ~equalCI(tree.attributes[j].AttributeName, LENGTHATTRIBUTE)
                      /\ IF isTip THEN ~equalCI(tree.attributes[j].AttributeName, NAMEATTRIBUTE)
                         ELSE /\ ~equalCI(tree.attributes[j].AttributeName, SUPPORTATTRIBUTE)
                              /\ ~equalCI(tree.attributes[j].AttributeName, NAMEATTRIBUTE)}
         failed == {j \in listed : vals[j].st # "ok"}
         written == {j \in listed : IsSet(vals[j].val)}
         F[j \in 0..Len(tree.attributes)] ==
           IF j = 0 THEN <<>>
           ELSE IF j \notin written THEN F[j - 1]
           ELSE F[j - 1]
                  \o (IF \E i \in written : i < j THEN <<44>> ELSE <<>>)
                  \o tree.attributes[j].AttributeName
                  \o (IF vals[j].val.isNum THEN <<61>> \o DoubleToString(vals[j].val.d)
                      ELSE IF \A i \in 1..Len(vals[j].val.s) : vals[j].val.s[i] # 39
                      THEN <<61, 39>> \o vals[j].val.s \o <<39>>
                      ELSE <<61, 34>> \o vals[j].val.s \o <<34>>)
     IN IF failed # {}
        THEN [out |-> <<>>, st |-> vals[CHOOSE j \in failed : \A i \in failed : j <= i].st]
        ELSE [out |-> IF written = {} THEN <<>>
                      ELSE <<91>> \o F[Len(tree.attributes)] \o <<93>>,
              st |-> "ok"]
     : vals \in {[j \in 1..Len(tree.attributes) |->
                    GetValue(vecs, j - 1, k, tree.attributes[j].IsNumeric)]}} : TRUE

\* the [...] block of a node (lines 167-243 for a tip, 316-393 for an
\* internal node): the attributes that are set at index k of vecs, "Name"
\* and "Length" left out for a tip, "Length", "Support" and (unless the
\* support was written in its place) "Name" for an internal node.  A text
\* value goes between ' ', between " " when it holds a '.
AttributeBlock(tree, vecs, k, isTip, hasSupport) ==
  CHOOSE w \in
    {LET listed == {j \in 1..Len(tree.attributes) :
                      /\ ~equalCI(tree.attributes[j].AttributeName, LENGTHATTRIBUTE)
                      /\ IF isTip THEN ~equalCI(tree.attributes[j].AttributeName, NAMEATTRIBUTE)
                         ELSE /\ ~equalCI(tree.attributes[j].AttributeName, SUPPORTATTRIBUTE)
                              /\ \/ ~equalCI(tree.attributes[j].AttributeName, NAMEATTRIBUTE)
                                 \/ hasSupport}
         failed == {j \in listed : vals[j].st # "ok"}
         written == {j \in listed : IsSet(vals[j].val)}
         F[j \in 0..Len(tree.attributes)] ==
           IF j = 0 THEN <<>>
           ELSE IF j \notin written THEN F[j - 1]
           ELSE F[j - 1]
                  \o (IF \E i \in written : i < j THEN <<44>> ELSE <<>>)
                  \o tree.attributes[j].AttributeName
                  \o (IF vals[j].val.isNum THEN <<61>> \o DoubleToString(vals[j].val.d)
                      ELSE IF \A i \in 1..Len(vals[j].val.s) : vals[j].val.s[i] # 39
                      THEN <<61, 39>> \o vals[j].val.s \o <<39>>
                      ELSE <<61, 34>> \o vals[j].val.s \o <<34>>)
     IN IF failed # {}
        THEN [out |-> <<>>, st |-> vals[CHOOSE j \in failed : \A i \in failed : j <= i].st]
        ELSE [out |-> IF written = {} THEN <<>>
                      ELSE <<91>> \o F[Len(tree.attributes)] \o <<93>>,
              st |-> "ok"]
     : vals \in {[j \in 1..Len(tree.attributes) |->
                    GetValue(vecs, j - 1, k, tree.attributes[j].IsNumeric)]}} : TRUE

RECURSIVE appendNodeNWKA(_, _, _)
\* appendNodeNWKA(builder, tree, nodeInd, sortedParents, sortedChildren,
\* sortedNodes).  A tip: 'label', :length, block.  An internal node: the
\* children between ( ), then 'name' when the support is NaN, the support
\* otherwise, :length, block.  The root ends with ;
appendNodeNWKA(tree, tr, nodeInd) ==
  CHOOSE w \in
    {CHOOSE v \in
     {LET inner == Len(tr.sortedChildren[nodeInd]) > 0
         mySupport == IF inner THEN support.val.d ELSE NaN
         C[i \in 0..Len(tr.sortedChildren[nodeInd])] ==
           IF i = 0 THEN [out |-> <<>>, st |-> "ok"]
           ELSE CHOOSE joined \in
                  {IF before.st # "ok" THEN before
                   ELSE [out |-> before.out \o (IF i > 1 THEN <<44>> ELSE <<>>) \o child.out,
                         st |-> child.st]
                   : before \in {C[i - 1]},
                     child \in {appendNodeNWKA(tree, tr, tr.sortedChildren[nodeInd][i])}} : TRUE
     IN
     IF ~inner /\ (k < 0 \/ k >= Len(tree.tipLabel)) THEN [out |-> <<>>, st |-> "ub"]
     ELSE IF C[Len(tr.sortedChildren[nodeInd])].st # "ok"
     THEN C[Len(tr.sortedChildren[nodeInd])]
     ELSE IF length.st # "ok" THEN [out |-> <<>>, st |-> length.st]
     ELSE IF inner /\ name.st # "ok" THEN [out |-> <<>>, st |-> name.st]
     ELSE IF inner /\ support.st # "ok" THEN [out |-> <<>>, st |-> support.st]
     ELSE IF block.st # "ok" THEN block
     ELSE [out |->
             (IF ~inner THEN <<39>> \o At(tree.tipLabel, k) \o <<39>>
              ELSE <<40>> \o C[Len(tr.sortedChildren[nodeInd])].out \o <<41>>
                     \o (IF name.val.s # <<>> /\ mySupport.isNaN
                         THEN <<39>> \o name.val.s \o <<39>> ELSE <<>>)
                     \o (IF ~mySupport.isNaN THEN DoubleToString(mySupport) ELSE <<>>))
               \o (IF ~length.val.d.isNaN THEN <<58>> \o DoubleToString(length.val.d)
                   ELSE <<>>)
               \o block.out
               \o (IF tr.sortedParents[nodeInd] < 0 THEN <<59>> ELSE <<>>),
           st |-> "ok"]
     : name \in {IF attributeIndex(tree.attributes, Attr(<<78, 97, 109, 101>>, FALSE)) < 0
                 THEN [st |-> "ok", val |-> StrVal(<<>>)]
                 ELSE GetValue(vecs, attributeIndex(tree.attributes,
                                                    Attr(<<78, 97, 109, 101>>, FALSE)),
                               k, FALSE)},
       support \in {IF attributeIndex(tree.attributes,
                                      Attr(<<83, 117, 112, 112, 111, 114, 116>>, TRUE)) < 0
                    THEN [st |-> "ok", val |-> NumVal(NaN)]
                    ELSE GetValue(vecs,
                                  attributeIndex(tree.attributes,
                                                 Attr(<<83, 117, 112, 112, 111, 114, 116>>, TRUE)),
                                  k, TRUE)},
       length \in {IF attributeIndex(tree.attributes,
                                     Attr(<<76, 101, 110, 103, 116, 104>>, TRUE)) < 0
                   THEN [st |-> "ok", val |-> NumVal(NaN)]
                   ELSE GetValue(vecs,
                                 attributeIndex(tree.attributes,
                                                Attr(<<76, 101, 110, 103, 116, 104>>, TRUE)),
                                 k, TRUE)},
       block \in {AttributeBlock(
                    tree, vecs, k, Len(tr.sortedChildren[nodeInd]) = 0,
                    /\ Len(tr.sortedChildren[nodeInd]) > 0
                    /\ attributeIndex(tree.attributes,
                                      Attr(<<83, 117, 112, 112, 111, 114, 116>>, TRUE)) >= 0
                    /\ IsSet(GetValue(vecs,
                                      attributeIndex(tree.attributes,
                                                     Attr(<<83, 117, 112, 112, 111, 114, 116>>,
                                                          TRUE)),
                                      k, TRUE).val))}}
       : TRUE
     : k \in {IF Len(tr.sortedChildren[nodeInd]) = 0 THEN tr.sortedNodes[nodeInd] - 1
              ELSE tr.sortedNodes[nodeInd] - Len(tree.tipLabel) - 1},
       vecs \in {IF Len(tr.sortedChildren[nodeInd]) = 0 THEN tree.tipAttributes
                 ELSE tree.nodeAttributes}} : TRUE

\* toString(tree, nwka = true): the traversal vectors, then appendNodeNWKA
\* from position 0
toString(tree) == appendNodeNWKA(tree, Traversal(tree), 0)

\* Rcpp_multiPhylo_to_string(trees, nwka = true, singleQuoted) and the
\* characters Rcpp_multiPhylo_to_file puts in a new file: every converted
\* tree's string followed by "\n"
Rcpp_multiPhylo_to_string(trees, treeNames) ==
  CHOOSE w \in
    {LET F[i \in 0..Len(trees)] ==
           IF i = 0 THEN [out |-> <<>>, st |-> "ok"]
           ELSE CHOOSE joined \in
                  {IF before.st # "ok" THEN before
                   ELSE [out |-> before.out \o one.out \o <<10>>, st |-> one.st]
                   : before \in {F[i - 1]}, one \in {toString(convertedTrees[i])}} : TRUE
     IN F[Len(trees)]
     : convertedTrees \in {convertTrees(trees, treeNames)}} : TRUE

\* translateNames: tipLabel[i] = std::to_string(translation[tipLabel[i]] + 1).
\* translation holds the labels in the order of their indices; operator[]
\* on a label it lacks inserts it with the index 0, which is also what
\* every later look-up of that label finds.
translateNames(tree, translation) ==
  [tree EXCEPT !.tipLabel =
     [i \in 1..Len(tree.tipLabel) |->
        LET hits == {k \in 1..Len(translation) : translation[k] = tree.tipLabel[i]}
        IN IntToString(IF hits = {} THEN 1 ELSE CHOOSE k \in hits : TRUE)]]

\* the characters Rcpp_multiPhylo_to_nexus puts in the file.  tipLabels is
\* the std::map<std::string, int> as the sequence of its keys by index
\* (first-seen order); the statements list it in key order, the order of
\* std::string::compare.
Rcpp_multiPhylo_to_nexus(trees, treeNames, translate, translateQuotes) ==
  CHOOSE w \in
    {LET labels == [i \in 1..Len(trees) |-> convertedTrees[i].tipLabel]
         Seen[i \in 0..Len(trees)] ==
           IF i = 0 THEN <<>>
           ELSE LET G[j \in 0..Len(labels[i])] ==
                      IF j = 0 THEN Seen[i - 1]
                      ELSE IF \E k \in 1..Len(G[j - 1]) : G[j - 1][k] = labels[i][j]
                      THEN G[j - 1]
                      ELSE Append(G[j - 1], labels[i][j])
                IN G[Len(labels[i])]
         tipLabels == IF translate THEN Seen[Len(trees)] ELSE <<>>
         index == Len(tipLabels)
         less(a, b) ==
           \/ \E p \in 1..Len(a) :
                /\ p <= Len(b) /\ a[p] < b[p]
                /\ \A q \in 1..(p - 1) : a[q] = b[q]
           \/ Len(a) < Len(b) /\ \A q \in 1..Len(a) : a[q] = b[q]
         rank(k) == 1 + Cardinality({m \in 1..index : less(tipLabels[m], tipLabels[k])})
         it == [r \in 1..index |-> CHOOSE k \in 1..index : rank(k) = r]
         quote == IF translateQuotes THEN <<39>> ELSE <<>>
         TaxLabels[r \in 0..index] ==
           IF r = 0 THEN <<>>
           ELSE TaxLabels[r - 1] \o <<9, 9>> \o quote \o tipLabels[it[r]] \o quote \o <<10>>
         Translate[r \in 0..index] ==
           IF r = 0 THEN <<>>
           ELSE Translate[r - 1] \o <<9, 9>> \o IntToString(it[r]) \o <<32>>
                  \o quote \o tipLabels[it[r]] \o quote
                  \o (IF r < index THEN <<44, 10>> ELSE <<10>>)
         Trees[i \in 0..Len(trees)] ==
           IF i = 0 THEN [out |-> <<>>, st |-> "ok"]
           ELSE CHOOSE joined \in
                  {IF before.st # "ok" THEN before
                   ELSE [out |-> before.out
                                   \o <<9, 84, 114, 101, 101, 32>> \o treeNames[i]
                                   \o <<32, 61, 32>> \o one.out \o <<10>>,
                         st |-> one.st]
                   : before \in {Trees[i - 1]},
                     one \in {toString(translateNames(convertedTrees[i], tipLabels))}} : TRUE
     IN [out |-> <<35, 78, 69, 88, 85, 83, 10, 10>>
                   \o (IF translate
                       THEN <<66, 101, 103, 105, 110, 32, 84, 97, 120, 97, 59, 10,
                              9, 68, 105, 109, 101, 110, 115, 105, 111, 110, 115, 32,
                              110, 116, 97, 120, 61>> \o IntToString(index)
                              \o <<59, 10, 9, 84, 97, 120, 76, 97, 98, 101, 108, 115, 10>>
                              \o TaxLabels[index]
                              \o <<9, 9, 59, 10, 69, 110, 100, 59, 10, 10,
                                   66, 101, 103, 105, 110, 32, 84, 114, 101, 101, 115, 59, 10,
                                   9, 84, 114, 97, 110, 115, 108, 97, 116, 101, 10>>
                              \o Translate[index] \o <<9, 9, 59, 10>>
                       ELSE <<66, 101, 103, 105, 110, 32, 84, 114, 101, 101, 115, 59, 10>>)
                   \o Trees[Len(trees)].out
                   \o <<69, 110, 100, 59, 10>>,
         st |-> Trees[Len(trees)].st]
     : convertedTrees \in {convertTrees(trees, treeNames)}} : TRUE

\* ------------------------------------------------------- batch readers
RECURSIVE ReadStatementString(_, _, _)
\* while (!eof && !(c == ';' && !escaped && !openQuotes && !openApostrophe))
\* of parseNWKAString: rs = [tk, sb], tk holding the token just read.  n
\* bounds the iterations, as in parseAttributesLoop.
ReadStatementString(source, rs, n) ==
  IF \/ rs.tk.eof
     \/ rs.tk.c = 59 /\ ~rs.tk.escaped /\ ~rs.tk.openQuotes /\ ~rs.tk.openApostrophe
  THEN rs
  ELSE IF n <= 1
  THEN CHOOSE next \in {[tk |-> tk, sb |-> Append(rs.sb, rs.tk.c)]
                        : tk \in {nextToken(source, rs.tk)}} : TRUE
  ELSE CHOOSE after \in
         {ReadStatementString(source, half, n - (n \div 2))
          : half \in {ReadStatementString(source, rs, n \div 2)}} : TRUE

RECURSIVE ReadStatementFile(_, _, _)
\* the same loop of parseNWKAFile, on the file stream
ReadStatementFile(rs, g, n) ==
  IF \/ rs.tk.eof
     \/ rs.tk.c = 59 /\ ~rs.tk.escaped /\ ~rs.tk.openQuotes /\ ~rs.tk.openApostrophe
  THEN rs
  ELSE IF n <= 1
  THEN CHOOSE next \in {[tk |-> tk, sb |-> Append(rs.sb, rs.tk.c)]
                        : tk \in {nextTokenFile(rs.tk, g)}} : TRUE
  ELSE CHOOSE after \in
         {ReadStatementFile(half, g, n - (n \div 2))
          : half \in {ReadStatementFile(rs, g, n \div 2)}} : TRUE

\* the body of  if (treeString.length() > 0)  in parseNWKAString and
\* parseNWKAFile: [st, trees, treeNames, warnings].  The tree is pushed
\* before its name is looked up; catch (...) warns with the ordinal
\* trees.size() + 1 and leaves the loop (st = "break").
PushTree(treeString, trees, treeNames) ==
  CHOOSE r \in
    {LET treeNameIndex ==
           attributeIndex(p.tree.attributes, Attr(<<84, 114, 101, 101, 78, 97, 109, 101>>, FALSE))
         name == IF treeNameIndex < 0
                 THEN [st |-> "ok",
                       val |-> StrVal(<<116, 114, 101, 101>> \o IntToString(Len(treeNames) + 1))]
                 ELSE GetValue(p.tree.nodeAttributes, treeNameIndex, 0, FALSE)
     IN IF p.st = "ub" \/ (p.st = "ok" /\ name.st = "ub")
        THEN [st |-> "ub", trees |-> trees, treeNames |-> treeNames, warnings |-> <<>>]
        ELSE IF p.st # "ok"
        THEN [st |-> "break", trees |-> trees, treeNames |-> treeNames,
              warnings |-> <<Len(trees) + 1>>]
        ELSE IF name.st # "ok"
        THEN [st |-> "break", trees |-> Append(trees, p.tree), treeNames |-> treeNames,
              warnings |-> <<Len(trees) + 2>>]
        ELSE [st |-> "ok", trees |-> Append(trees, p.tree),
              treeNames |-> Append(treeNames, name.val.s), warnings |-> <<>>]
     : p \in {parseNWKAStringOneTree(treeString)}} : TRUE

\* ----------------------------------------------------------- NEXUS reader
RECURSIVE TreeStatementScan(_, _, _)
\* the three loops of a tree statement (lines 1385-1442), sc.tk holding the
\* token just read: "name" runs to the '=' outside a comment and reads one
\* more token, "pre" collects preComments up to the '(' outside a comment,
\* "tree" collects the tree up to the ';' outside comments and quotes.  n
\* bounds the steps: one per token, and one at the end of each loop.
TreeStatementScan(sc, g, n) ==
  IF sc.stage = "done" THEN sc
  ELSE IF n > 1
  THEN CHOOSE after \in
         {TreeStatementScan(half, g, n - (n \div 2))
          : half \in {TreeStatementScan(sc, g, n \div 2)}} : TRUE
  ELSE   CHOOSE next \in
           {LET c == sc.tk.c
                comment == IF c = 93 THEN FALSE ELSE IF c = 91 THEN TRUE ELSE sc.openComment
            IN IF sc.stage = "name"
               THEN IF ~sc.tk.eof /\ (c # 61 \/ sc.openComment)
                    THEN [sc EXCEPT !.openComment = comment, !.tk = tk]
                    ELSE [sc EXCEPT !.stage = "pre", !.tk = tk]
               ELSE IF sc.stage = "pre"
               THEN IF ~(c = 40 /\ ~sc.openComment) /\ ~sc.tk.eof
                    THEN [sc EXCEPT !.preComments = Append(@, c), !.openComment = comment,
                                    !.tk = tk]
                    ELSE [sc EXCEPT !.stage = "tree"]
               ELSE IF /\ ~(/\ c = 59 /\ ~sc.openComment /\ ~sc.tk.escaped
                            /\ ~sc.tk.openQuotes /\ ~sc.tk.openApostrophe)
                       /\ ~sc.tk.eof
               THEN [sc EXCEPT !.tree = Append(@, c), !.openComment = comment, !.tk = tk]
               ELSE [sc EXCEPT !.stage = "done"]
            : tk \in {nextTokenFile(sc.tk, g)}} : TRUE

\* a label as it stands
translateLabelKept(translateDictionary, label) == label

\* lines 1462-1469 and 1475-1482: a label that is not empty and is a key of
\* the dictionary becomes the value stored for it
translateLabel(translateDictionary, label) ==
  IF label # <<>> /\ label \in DOMAIN translateDictionary
  THEN translateDictionary[label] ELSE label

\* what follows parseNWKAStringOneTree in a tree statement (lines
\* 1448-1546): [st, tree].  A tree without a "TreeName" slot gets one
\* holding treeName at the root; tip labels, then node labels, that are keys
\* of the dictionary are replaced; the attributes of preComments (unless it
\* is [&R] or [&U]) are stored at the root.  Element 0 of an empty vector
\* is "ub".
MergeTreeStatement(parsedTree, treeName, translateDictionary, preComments) ==
  CHOOSE r \in
    {LET translated(label) == translateLabel(translateDictionary, label)
         named ==
           IF attributeIndex(parsedTree.attributes,
                             Attr(<<84, 114, 101, 101, 78, 97, 109, 101>>, FALSE)) < 0
           THEN [parsedTree EXCEPT
                   !.attributes = Append(@, Attr(<<84, 114, 101, 101, 78, 97, 109, 101>>, FALSE)),
                   !.tipAttributes =
                      Append(@, StrVec([k \in 1..Len(parsedTree.tipLabel) |-> <<>>])),
                   !.nodeAttributes =
                      Append(@, StrVec([k \in 1..parsedTree.Nnode |->
                                          IF k = 1 THEN treeName ELSE <<>>]))]
           ELSE parsedTree
         relabelled ==
           [named EXCEPT
              !.tipLabel = [i \in 1..Len(@) |-> translated(@[i])],
              !.nodeLabel = [i \in 1..Len(@) |-> translated(@[i])]]
         attributes == IF pre.st = "ok" THEN pre.attributes ELSE <<>>
         Merged[j \in 0..Len(attributes)] ==
           IF j = 0 THEN relabelled
           ELSE CHOOSE after \in
                  {LET isNumeric == attributes[j].val.isNum
                       attr == Attr(attributes[j].key, isNumeric)
                       found == attributeIndex(tree.attributes, attr)
                       attrIndex == IF found < 0 THEN Len(tree.attributes) ELSE found
                       nodeAttributes ==
                         IF found >= 0 THEN tree.nodeAttributes
                         ELSE Append(tree.nodeAttributes,
                                     IF isNumeric THEN NumVec([k \in 1..tree.Nnode |-> NaN])
                                     ELSE StrVec([k \in 1..tree.Nnode |-> <<>>]))
                   IN [tree EXCEPT
                         !.attributes = IF found < 0 THEN Append(@, attr) ELSE @,
                         !.tipAttributes =
                            IF found >= 0 THEN @
                            ELSE Append(@, IF isNumeric
                                           THEN NumVec([k \in 1..Len(tree.tipLabel) |-> NaN])
                                           ELSE StrVec([k \in 1..Len(tree.tipLabel) |-> <<>>])),
                         !.nodeAttributes =
                            IF tree.Nnode = 0 THEN nodeAttributes
                            ELSE IF isNumeric
                            THEN [nodeAttributes EXCEPT ![attrIndex + 1].d[1] = attributes[j].val.d]
                            ELSE [nodeAttributes EXCEPT ![attrIndex + 1].s[1] = attributes[j].val.s]]
                   : tree \in {Merged[j - 1]}} : TRUE
     IN IF parsedTree.Nnode = 0
           /\ \/ attributeIndex(parsedTree.attributes,
                                Attr(<<84, 114, 101, 101, 78, 97, 109, 101>>, FALSE)) < 0
              \/ attributes # <<>>
        THEN [st |-> "ub", tree |-> parsedTree]
        ELSE IF pre.st # "ok" THEN [st |-> pre.st, tree |-> relabelled]
        ELSE [st |-> "ok", tree |-> Merged[Len(attributes)]]
     : pre \in {IF trim(preComments) \in {<<91, 38, 82, 93>>, <<91, 38, 85, 93>>}
                THEN [st |-> "ok", attributes |-> <<>>]
                ELSE parseAttributes(trim(preComments), 0, FALSE, <<>>, 2)}} : TRUE

\* one pass through  switch (status)  of parseNEXUSFile (lines 1271-1554):
\* nx = [status, word, tk, dict, trees, treeNames, count], returned with st.
\* The tree statement calls parseNWKAStringOneTree outside any try block:
\* st is "throw" when an exception leaves it.
parseNEXUSSwitch(nx, g) ==
  LET to(status) == [nx EXCEPT !.status = status] @@ [st |-> "ok"]
      same == nx @@ [st |-> "ok"]
  IN
  CASE nx.status = "Root" ->
         IF equalCI(nx.word, <<98, 101, 103, 105, 110>>)
         THEN CHOOSE r \in
                {[nx EXCEPT !.tk.s = w.s,
                            !.status = IF equalCI(w.word, <<116, 114, 101, 101, 115>>)
                                       THEN "InTreeBlock" ELSE "InOtherBlock"]
                   @@ [st |-> "ok"]
                 : w \in {nextWord(nx.tk.s, g)}} : TRUE
         ELSE IF nx.word = <<91>> THEN to("InCommentInRoot") ELSE same
    [] nx.status = "InCommentInRoot" -> IF nx.word = <<93>> THEN to("Root") ELSE same
    [] nx.status = "InOtherBlock" ->
         IF equalCI(nx.word, <<101, 110, 100>>) THEN to("Root")
         ELSE IF nx.word = <<91>> THEN to("InCommentInOtherBlock") ELSE same
    [] nx.status = "InCommentInOtherBlock" ->
         IF nx.word = <<93>> THEN to("InOtherBlock") ELSE same
    [] nx.status = "InTreeBlock" ->
         IF equalCI(nx.word, <<116, 114, 97, 110, 115, 108, 97, 116, 101>>)
         THEN to("InTranslateStatement")
         ELSE IF equalCI(nx.word, <<116, 114, 101, 101>>) THEN to("InTreeStatement")
         ELSE IF equalCI(nx.word, <<101, 110, 100>>) THEN to("Root")
         ELSE IF nx.word = <<91>> THEN to("InCommentInTreeBlock") ELSE same
    [] nx.status = "InCommentInTreeBlock" ->
         IF nx.word = <<93>> THEN to("InTreeBlock") ELSE same
    [] nx.status = "InTranslateStatement" ->
         IF nx.word = <<91>> THEN to("InCommentInTranslateStatement")
         ELSE IF nx.word = <<59>> THEN to("InTreeBlock")
         ELSE IF nx.word = <<44>> THEN same
         ELSE CHOOSE r \in
                {[nx EXCEPT !.tk.s = w.s,
                            !.word = w.word,
                            !.dict = [k \in DOMAIN nx.dict \cup {nx.word} |->
                                        IF k = nx.word THEN w.word ELSE nx.dict[k]]]
                   @@ [st |-> "ok"]
                 : w \in {nextWord(nx.tk.s, g)}} : TRUE
    [] nx.status = "InCommentInTranslateStatement" ->
         IF nx.word = <<93>> THEN to("InTranslateStatement") ELSE same
    [] nx.status = "InCommentInTreeStatementName" ->
         IF nx.word = <<93>> THEN to("InTreeStatement") ELSE same
    [] nx.status = "InTreeStatement" ->
         IF nx.word = <<91>> THEN to("InCommentInTreeStatementName")
         ELSE CHOOSE r \in
                {CHOOSE q \in
                   {IF p.st # "ok"
                    THEN [nx EXCEPT !.tk = sc.tk, !.count = @ + 1] @@ [st |-> p.st]
                    ELSE CHOOSE v \in
                           {IF m.st # "ok"
                            THEN [nx EXCEPT !.tk = sc.tk, !.count = @ + 1] @@ [st |-> m.st]
                            ELSE [nx EXCEPT !.tk = sc.tk, !.count = @ + 1,
                                            !.trees = Append(@, m.tree),
                                            !.treeNames = Append(@, nx.word),
                                            !.status = "InTreeBlock"] @@ [st |-> "ok"]
                            : m \in {MergeTreeStatement(p.tree, nx.word, nx.dict,
                                                        sc.preComments)}} : TRUE
                    : p \in {parseNWKAStringOneTree(sc.tree)}} : TRUE
                 : sc \in {TreeStatementScan(
                             [tk |-> nextTokenFile(Tokenizer(0, nx.tk.s), g), stage |-> "name",
                              openComment |-> FALSE, preComments |-> <<>>, tree |-> <<>>],
                             g, Len(nx.tk.s.data) + 4)}} : TRUE

\* ============================================================ initial values
\* Each codec has its own state machine; the variables of the others stay at
\* these values.
NoStream == Stream(<<>>)


SiStart ==
  /\ siValues = <<>>
  /\ siOut = <<>>
  /\ currByte = 0
  /\ currPos = 0
  /\ siPhase = "write"
  /\ siIn = NoStream
  /\ rdByte = 0
  /\ rdIndex = 0
  /\ siRead = <<>>

\* no edge list traversed
NoTree == [Nnode |-> 0, tipLabel |-> <<>>, edge |-> <<>>]
NoTraversal == [filled |-> FALSE]

\* no value handed to the integer and string codecs
NoGiven == [kind |-> "none", int |-> 0, text |-> <<>>, after |-> <<>>]
NoBack == [st |-> "none", int |-> 0, text |-> <<>>, s |-> NoStream]

IoStart ==
  /\ ioGiven = NoGiven
  /\ ioBytes = <<>>
  /\ ioBack = NoBack
  /\ ioPhase = "none"

TrStart ==
  /\ trTree = NoTree
  /\ trOut = NoTraversal
  /\ tkSource = <<>>
  /\ tkKind = "none"
  /\ tkNow = Tokenizer(0, NoStream)
  /\ IoStart

\* the text codecs before anything is written or read
TxtStart ==
  /\ txKind = "none"
  /\ txGiven = [trees |-> <<>>, translate |-> FALSE, translateQuotes |-> FALSE,
                statements |-> <<>>, nodes |-> <<>>, pairs |-> <<>>]
  /\ txText = <<>>
  /\ txPhase = "idle"
  /\ txTk = Tokenizer(0, NoStream)
  /\ txStatus = "Root"
  /\ txWord = <<>>
  /\ txDict = [x \in {} |-> <<>>]
  /\ txTrees = <<>>
  /\ txNames = <<>>
  /\ txWarnings = <<>>
  /\ txCount = 0
  /\ txOne = [tree |-> EmptyPhylo, written |-> [out |-> <<>>, st |-> "ok"],
              parsed |-> [st |-> "ok", tree |-> EmptyPhylo]]

NoPre ==
  [st |-> "ok", s |-> NoStream, globalNames |-> FALSE, validTrailer |-> FALSE,
   treeAddresses |-> <<>>, allNames |-> <<>>, allAttributes |-> <<>>]

BinStart ==
  /\ binTrees = <<>>
  /\ binFile = <<>>
  /\ binWr = "none"
  /\ binMode = "none"
  /\ binAddresses = <<>>
  /\ binExtra = <<>>
  /\ binDamage = "none"
  /\ rdPhase = "idle"
  /\ rdStream = NoStream
  /\ rdPre = NoPre
  /\ parsedTrees = <<>>
  /\ rdTreeNames = <<>>
  /\ rdWarnings = <<>>
  /\ rdScans = 0

\* ============================================================ binary files
\* ------------------------------------------------------------- the trees
\* an R tree: the fields convertTree reads, tip.attributes and
\* node.attributes being named lists of vectors, here sequences of
\* [name, vec]
RTree(Nnode, tipLabel, nodeLabel, edge, edgeLength, tipList, nodeList) ==
  [Nnode |-> Nnode, edge |-> edge, tipLabel |-> tipLabel, nodeLabel |-> nodeLabel,
   edgeLength |-> edgeLength, tipList |-> tipList, nodeList |-> nodeList]

\* an element of such a list
Named(name, vec) == [name |-> name, vec |-> vec]

\* convertPhylo: the R tree handed back for a decoded tree, its ids shifted
\* to start at 1, edge.length and node.label present when hasEdgeLength
\* and hasNodeLabel say so (convertTree fills absent lengths with NaN),
\* and one named vector per attribute in each of the two lists
convertPhylo(tree) ==
  RTree(tree.Nnode, tree.tipLabel,
        IF tree.hasNodeLabel THEN tree.nodeLabel ELSE <<>>,
        OneBased(tree).edge,
        IF tree.hasEdgeLength THEN tree.edgeLength ELSE [i \in 1..Len(tree.edge) |-> NaN],
        [j \in 1..Len(tree.attributes) |->
           Named(tree.attributes[j].AttributeName, tree.tipAttributes[j])],
        [j \in 1..Len(tree.attributes) |->
           Named(tree.attributes[j].AttributeName, tree.nodeAttributes[j])])

Cherry == <<<<3, 1>>, <<3, 2>>>>
Ladder == <<<<4, 5>>, <<5, 1>>, <<5, 2>>, <<4, 3>>>>
Star == <<<<4, 1>>, <<4, 2>>, <<4, 3>>>>

\* (A:1,B:2);
TreeAB == RTree(1, <<<<65>>, <<66>>>>, <<>>, Cherry, <<Dbl(10000000), Dbl(20000000)>>, <<>>, <<>>)
\* ((A:1,B:2)X:0.5,C:3)R;
TreeNamed ==
  RTree(2, <<<<65>>, <<66>>, <<67>>>>, <<<<82>>, <<88>>>>, Ladder,
        <<Dbl(5000000), Dbl(10000000), Dbl(20000000), Dbl(30000000)>>, <<>>, <<>>)
\* (C,D);
TreeCD == RTree(1, <<<<67>>, <<68>>>>, <<>>, Cherry, <<NaN, NaN>>, <<>>, <<>>)
\* (A[rate=3]:1,B[rate=4]:2);
TreeRate ==
  RTree(1, <<<<65>>, <<66>>>>, <<>>, Cherry, <<Dbl(10000000), Dbl(20000000)>>,
        <<Named(<<114, 97, 116, 101>>, NumVec(<<Dbl(30000000), Dbl(40000000)>>))>>,
        <<Named(<<114, 97, 116, 101>>, NumVec(<<NaN>>))>>)
\* ((A:1,B:2)90:0.5,C:3);
TreeSupport ==
  RTree(2, <<<<65>>, <<66>>, <<67>>>>, <<<<>>, <<57, 48>>>>, Ladder,
        <<Dbl(5000000), Dbl(10000000), Dbl(20000000), Dbl(30000000)>>, <<>>, <<>>)

\* (A[col=x,col=3]:1,B:2); a text and a numeric attribute both named col
TreeMixed ==
  RTree(1, <<<<65>>, <<66>>>>, <<>>, Cherry, <<Dbl(10000000), Dbl(20000000)>>,
        <<Named(<<99, 111, 108>>, StrVec(<<<<120>>, <<>>>>)),
          Named(<<99, 111, 108>>, NumVec(<<Dbl(30000000), NaN>>))>>,
        <<Named(<<99, 111, 108>>, StrVec(<<<<>>>>)),
          Named(<<99, 111, 108>>, NumVec(<<NaN>>))>>)

\* (A:1,B:2,C:3);
TreeStar ==
  RTree(1, <<<<65>>, <<66>>, <<67>>>>, <<>>, Star,
        <<Dbl(10000000), Dbl(20000000), Dbl(30000000)>>, <<>>, <<>>)

\* (A[a=1,b=2,c=3,d=4,e=1]:1,B:2); five numeric attributes of its own
TreeFive ==
  RTree(1, <<<<65>>, <<66>>>>, <<>>, Cherry, <<Dbl(10000000), Dbl(20000000)>>,
        <<Named(<<97>>, NumVec(<<Dbl(10000000), NaN>>)),
          Named(<<98>>, NumVec(<<Dbl(20000000), NaN>>)),
          Named(<<99>>, NumVec(<<Dbl(30000000), NaN>>)),
          Named(<<100>>, NumVec(<<Dbl(40000000), NaN>>)),
          Named(<<101>>, NumVec(<<Dbl(10000000), NaN>>))>>,
        <<Named(<<97>>, NumVec(<<NaN>>)), Named(<<98>>, NumVec(<<NaN>>)),
          Named(<<99>>, NumVec(<<NaN>>)), Named(<<100>>, NumVec(<<NaN>>)),
          Named(<<101>>, NumVec(<<NaN>>))>>)

\* (:1,:2); two tips without a label
TreeBlank == RTree(1, <<<<>>, <<>>>>, <<>>, Cherry, <<Dbl(10000000), Dbl(20000000)>>, <<>>, <<>>)

TreePool ==
  {TreeAB, TreeNamed, TreeCD, TreeRate, TreeSupport, TreeMixed, TreeStar, TreeFive, TreeBlank}

\* names(trees) of the R list: "T1", "T2", ...
ListNames(n) == [i \in 1..n |-> <<84, 48 + i>>]

\* the additional data a caller hands over
ExtraData == {<<>>, <<0, 0, 0>>}

\* ------------------------------------------------------------- the state
BinInit == BinStart /\ SiStart /\ TxtStart /\ TrStart

rdVars == <<rdPhase, rdStream, rdPre, parsedTrees, rdTreeNames, rdWarnings, rdScans>>

\* Rcpp_write_binary_trees(trees, fileName, additionalData)
WriteBinaryTrees(trees, additionalData) ==
  /\ binWr = "none"
  /\ \E converted \in {convertTrees(trees, ListNames(Len(trees)))} :
       \E w \in {writeBinaryTrees(converted, additionalData)} :
         /\ binTrees' = converted
         /\ binFile' = w.out
         /\ binWr' = IF w.st = "ok" THEN "closed" ELSE "failed"
         /\ binAddresses' = w.addresses
  /\ binMode' = "whole"
  /\ binExtra' = additionalData
  /\ UNCHANGED <<binDamage, rdVars, siVars, txtVars, trVars>>

\* Rcpp_begin_writing_binary_trees(fileName)
BeginWriting ==
  /\ binWr = "none"
  /\ binFile' = beginWritingBinaryTrees
  /\ binAddresses' = <<Len(beginWritingBinaryTrees)>>
  /\ binWr' = "open"
  /\ binMode' = "incremental"
  /\ UNCHANGED <<binTrees, binExtra, binDamage, rdVars, siVars, txtVars, trVars>>

\* Rcpp_write_binary_tree(tree, fileName, addresses)
AppendTree(tree) ==
  /\ binWr = "open"
  /\ Len(binTrees) < MaxTrees
  /\ \E converted \in {convertTree(tree)} :
       \E w \in {writeBinaryTree(converted, FALSE, FALSE, EmptyMap, EmptyMap, <<>>)} :
         /\ binTrees' = Append(binTrees, converted)
         /\ binFile' = binFile \o w.out
         /\ binWr' = IF w.st = "ok" THEN "open" ELSE "failed"
         /\ binAddresses' = Append(binAddresses, Len(binFile) + Len(w.out))
  /\ UNCHANGED <<binMode, binExtra, binDamage, rdVars, siVars, txtVars, trVars>>

\* Rcpp_finish_writing_binary_trees(fileName, addresses, additionalData)
FinishWriting(additionalData) ==
  /\ binWr = "open"
  /\ binFile' = binFile \o finishWritingBinaryTrees(binAddresses, additionalData)
  /\ binWr' = "closed"
  /\ binExtra' = additionalData
  /\ UNCHANGED <<binTrees, binMode, binAddresses, binDamage, rdVars, siVars, txtVars, trVars>>

\* A file of the format that another writer of it made: one record with its
\* own table, whose entries rate and RATE are both numeric, for the tree
\* (A,B) whose first tip has rate = 3 and whose second tip has RATE = 4
ForeignRecord ==
  writeInt(2)
    \o AttributeTable(<<Attr(<<114, 97, 116, 101>>, TRUE), Attr(<<82, 65, 84, 69>>, TRUE)>>)
    \o PackCounts(<<2, 0, 0>>, 1, 0, 0)
    \o writeInt(0)
    \o writeInt(1) \o writeInt(0) \o writeDouble(Dbl(30000000))
    \o writeInt(1) \o writeInt(1) \o writeDouble(Dbl(40000000))

ForeignFile ==
  beginWritingBinaryTrees \o ForeignRecord
    \o finishWritingBinaryTrees(<<5, 5 + Len(ForeignRecord)>>, <<>>)

\* the environment: a file that this writer did not write is there to read
ProvideFile(file) ==
  /\ binWr = "none"
  /\ binFile' = file
  /\ binWr' = "closed"
  /\ binMode' = "foreign"
  /\ UNCHANGED <<binTrees, binAddresses, binExtra, binDamage, rdVars, siVars, txtVars, trVars>>

\* the environment: the last byte of the file is overwritten
DamageTrailer ==
  /\ binWr = "closed" /\ binDamage = "none" /\ rdPhase = "idle"
  /\ binFile' = [binFile EXCEPT ![Len(binFile)] = 0]
  /\ binDamage' = "trailer"
  /\ UNCHANGED <<binTrees, binWr, binMode, binAddresses, binExtra, rdVars, siVars, txtVars, trVars>>

\* the environment: the file loses its last 4 bytes
TruncateTrailer ==
  /\ binWr = "closed" /\ binDamage = "none" /\ rdPhase = "idle"
  /\ binFile' = SubSeq(binFile, 1, Len(binFile) - 4)
  /\ binDamage' = "truncated"
  /\ UNCHANGED <<binTrees, binWr, binMode, binAddresses, binExtra, rdVars, siVars, txtVars, trVars>>

\* the environment: a byte of the magic number is overwritten
DamageMagic(k) ==
  /\ binWr = "closed" /\ binDamage = "none" /\ rdPhase = "idle"
  /\ binFile' = [binFile EXCEPT ![k] = 0]
  /\ binDamage' = "magic"
  /\ UNCHANGED <<binTrees, binWr, binMode, binAddresses, binExtra, rdVars, siVars, txtVars, trVars>>

\* the environment: one of the bits 2-7 of the header byte is set
DamageReserved(bit) ==
  /\ binWr = "closed" /\ binDamage = "none" /\ rdPhase = "idle"
  /\ binFile' = [binFile EXCEPT ![5] = BitOr(binFile[5], 2 ^ bit)]
  /\ binDamage' = "reserved"
  /\ UNCHANGED <<binTrees, binWr, binMode, binAddresses, binExtra, rdVars, siVars, txtVars, trVars>>

\* readBinaryTrees(file) up to its return or, without a valid trailer, up
\* to the first test of while (!error)
ReadBinaryTrees ==
  /\ binWr = "closed" /\ rdPhase = "idle"
  /\ \E g \in GarbageBytes : \E pre \in {ReadPreamble(binFile, g)} :
       /\ rdPre' = pre
       /\ IF pre.st # "ok"
          THEN /\ rdPhase' = IF pre.st = "alloc" THEN "beyond" ELSE pre.st
               /\ rdStream' = pre.s
               /\ UNCHANGED <<parsedTrees, rdTreeNames, rdWarnings>>
          ELSE IF pre.validTrailer
          THEN \E all \in {ReadByAddress(pre, 1, [st |-> "ok", trees |-> <<>>,
                                                  treeNames |-> <<>>, s |-> pre.s], g)} :
                 /\ rdPhase' = IF all.st = "ok" THEN "done"
                               ELSE IF all.st = "alloc" THEN "beyond" ELSE all.st
                 /\ rdStream' = all.s
                 /\ parsedTrees' = IF all.st = "ok" THEN all.trees ELSE <<>>
                 /\ rdTreeNames' = IF all.st = "ok" THEN all.treeNames ELSE <<>>
                 /\ UNCHANGED rdWarnings
          ELSE /\ rdPhase' = "scan"
               /\ rdStream' = pre.s
               /\ rdWarnings' = Append(rdWarnings, "Invalid file trailer!")
               /\ UNCHANGED <<parsedTrees, rdTreeNames>>
  /\ UNCHANGED <<binTrees, binFile, binWr, binMode, binAddresses, binExtra, binDamage,
                 rdScans, siVars, txtVars, trVars>>

\* one iteration of while (!error) (lines 751-789): an exception thrown by
\* readBinaryTree ends the loop, one thrown by the name lookup leaves the
\* function
ScanStep ==
  /\ rdPhase = "scan"
  /\ rdScans < MaxScan
  /\ \E g \in GarbageBytes :
       \E r \in {readBinaryTree(rdStream, rdPre.globalNames, rdPre.allNames,
                                rdPre.allAttributes, g)} :
         /\ rdStream' = r.s
         /\ IF r.st = "throw"
            THEN rdPhase' = "done" /\ UNCHANGED <<parsedTrees, rdTreeNames>>
            ELSE IF r.st = "alloc"
            THEN rdPhase' \in {"done", "beyond"} /\ UNCHANGED <<parsedTrees, rdTreeNames>>
            ELSE IF r.st = "ub"
            THEN rdPhase' = "ub" /\ UNCHANGED <<parsedTrees, rdTreeNames>>
            ELSE \E nm \in {TreeNameOf(r.tree, Len(parsedTrees) + 1)} :
                   IF nm.st # "ok"
                   THEN rdPhase' = nm.st /\ UNCHANGED <<parsedTrees, rdTreeNames>>
                   ELSE /\ rdPhase' = "scan"
                        /\ parsedTrees' = Append(parsedTrees, r.tree)
                        /\ rdTreeNames' = Append(rdTreeNames, nm.val)
  /\ rdScans' = rdScans + 1
  /\ UNCHANGED <<binTrees, binFile, binWr, binMode, binAddresses, binExtra, binDamage,
                 rdPre, rdWarnings, siVars, txtVars, trVars>>

BinNext ==
  \/ \E n \in 0..MaxTrees : \E trees \in [1..n -> TreePool] : \E x \in ExtraData :
       WriteBinaryTrees(trees, x)
  \/ BeginWriting
  \/ \E tree \in TreePool : AppendTree(tree)
  \/ \E x \in ExtraData : FinishWriting(x)
  \/ ProvideFile(ForeignFile)
  \/ DamageTrailer
  \/ TruncateTrailer
  \/ \E k \in 1..4 : DamageMagic(k)
  \/ \E bit \in 2..7 : DamageReserved(bit)
  \/ ReadBinaryTrees
  \/ ScanStep

SpecBinary == BinInit /\ [][BinNext]_vars

\* ------------------------------------------------------------ properties
\* the 8-byte little-endian integer at 0-based offset p of the file
Int64At(data, p) == readInt64(seekg(Stream(data), p, "beg")).val

\* where the record starting at 0-based offset p ends, as the reader sees it
RecordEnd(data, p, globalNames, names, attributes) ==
  readBinaryTree(seekg(Stream(data), p, "beg"), globalNames, names, attributes, 0).s.pos

\* the attribute values of a tree, node by node in canonical DFS order
AttrView(tree) ==
  LET v == TreeView(tree) IN [i \in DOMAIN v |-> [count |-> v[i].count, attrs |-> v[i].attrs]]

\* the i-th decoded tree says what the i-th written tree says
SameTree(i) == TreeView(OneBased(parsedTrees[i])) = TreeView(binTrees[i])

\* a complete, undamaged file written in one call has been read
WholeFileRead ==
  binMode = "whole" /\ binWr = "closed" /\ binDamage = "none" /\ rdPhase # "idle"

\* C1: reading back a file written by writeBinaryTrees yields the written
\* trees, in order, each equal to the original in topology, tip labels, node
\* labels, edge lengths and every attribute value of every node, whichever
\* of shared or per-tree tables the writer chose.
C1_BinaryRoundTrip ==
  WholeFileRead =>
    /\ rdPhase = "done"
    /\ Len(parsedTrees) = Len(binTrees)
    /\ \A i \in 1..Len(binTrees) : SameTree(i)

\* a complete file whose trailer was overwritten or cut off is being read
TrailerLost == binWr = "closed" /\ binDamage \in {"trailer", "truncated"}

\* C6: a file of n trees without a valid trailer is read with a diagnostic,
\* and the recovery scan returns the n written trees in written order and
\* no tree decoded from the bytes after the last record.
C6_RecoveryReturnsWrittenTrees ==
  TrailerLost /\ rdPhase # "idle" =>
    /\ rdWarnings # <<>>
    /\ rdPhase \in {"scan", "done"}
    /\ Len(parsedTrees) <= Len(binTrees)
    /\ \A i \in 1..Len(parsedTrees) : AttrView(OneBased(parsedTrees[i])) = AttrView(binTrees[i])
    /\ rdPhase = "done" => Len(parsedTrees) = Len(binTrees)

\* an undamaged file of the incremental writer, open or finished
IncrementalFile == binMode = "incremental" /\ binWr \in {"open", "closed"}

\* C7: after begin, k appends and finish, the address list has k+1 strictly
\* increasing entries starting at 5, entry i being the start of record i and
\* the end of record i-1, the last one the file length before finish; the
\* label-section offset in the trailer is where the label section is; and
\* the finished file is read through its trailer as the k appended trees in
\* append order.
C7_IncrementalProtocol ==
  IncrementalFile =>
    LET k == Len(binTrees)
        len == Len(binFile)
        labelAddress == Int64At(binFile, len - 12)
    IN /\ Len(binAddresses) = k + 1
       /\ binAddresses[1] = 5
       /\ \A i \in 1..k : binAddresses[i] < binAddresses[i + 1]
       /\ \A i \in 1..k :
            RecordEnd(binFile, binAddresses[i], FALSE, <<>>, <<>>) = binAddresses[i + 1]
       /\ binWr = "open" => binAddresses[k + 1] = len
       /\ binWr = "closed" /\ binDamage = "none" =>
            /\ labelAddress = binAddresses[k + 1] + Len(binExtra)
            /\ labelAddress + 1 + 8 * k + 12 = len
            /\ binFile[labelAddress + 1] = k
            /\ \A i \in 1..k : Int64At(binFile, labelAddress + 1 + 8 * (i - 1)) = binAddresses[i]
            /\ rdPhase # "idle" =>
                 /\ rdPhase = "done"
                 /\ rdPre.validTrailer
                 /\ Len(parsedTrees) = k
                 /\ \A i \in 1..k :
                      AttrView(OneBased(parsedTrees[i])) = AttrView(binTrees[i])

\* two trees were appended, additional data copied, and the file read back
C7_Witness ==
  /\ binMode = "incremental" /\ binWr = "closed" /\ binDamage = "none"
  /\ Len(binTrees) = 2 /\ binTrees[1] # binTrees[2]
  /\ binExtra # <<>>
  /\ rdPhase = "done" /\ Len(parsedTrees) = 2

\* a complete, undamaged file written in one call
WholeFile == binMode = "whole" /\ binWr = "closed" /\ binDamage = "none"

\* C8: a file written by writeBinaryTrees ends with the trailer magic, the 8
\* bytes before it hold the offset of the label section, the label section
\* holds the tree count and one 8-byte offset per tree, the i-th being where
\* the i-th record starts; the offsets increase strictly and lie after the
\* header and global tables and before the label section, additional data or
\* not.
C8_LabelSectionLayout ==
  WholeFile =>
    LET n == Len(binTrees)
        len == Len(binFile)
        labelAddress == Int64At(binFile, len - 12)
        pre == ReadPreamble(binFile, 0)
        tablesEnd == pre.s.pos
        off(i) == Int64At(binFile, labelAddress + 1 + 8 * (i - 1))
    IN /\ SubSeq(binFile, len - 3, len) = <<69, 78, 68, 255>>
       /\ labelAddress + 1 + 8 * n + 12 = len
       /\ binFile[labelAddress + 1] = n
       /\ \A i \in 1..n : tablesEnd <= off(i) /\ off(i) < labelAddress
       /\ \A i \in 1..(n - 1) : off(i) < off(i + 1)
       /\ n >= 1 => off(1) = tablesEnd
       /\ \A i \in 1..n :
            RecordEnd(binFile, off(i), pre.globalNames, pre.allNames, pre.allAttributes)
              = IF i < n THEN off(i + 1) ELSE labelAddress - Len(binExtra)

\* two trees and additional data were written in one call
C8_Witness ==
  /\ WholeFile
  /\ Len(binTrees) = 2
  /\ binExtra # <<>>

\* the file does not start with 23 54 52 45, or a bit 2-7 of byte 4 is set
BadHeader == SubSeq(binFile, 1, 4) # <<35, 84, 82, 69>> \/ binFile[5] >= 4

\* C9: a file with a wrong magic number or a reserved header bit set makes
\* readBinaryTrees fail fatally with no tree returned, before anything
\* beyond the 5 header bytes is read.
C9_FatalHeader ==
  binWr = "closed" /\ rdPhase # "idle" /\ BadHeader =>
    /\ rdPhase = "fatal"
    /\ parsedTrees = <<>> /\ rdTreeNames = <<>>
    /\ rdWarnings = <<>>
    /\ rdStream.pos <= 5
    /\ rdPre.treeAddresses = <<>> /\ rdPre.allNames = <<>> /\ rdPre.allAttributes = <<>>

\* a file holding trees had a reserved bit set and was handed to the reader
C9_Witness ==
  /\ binDamage = "reserved"
  /\ Len(binTrees) >= 1
  /\ rdPhase = "fatal"

\* ============================================================ short ints
\* A harness around writeShortInt / readShortInt: the writer side is the loop
\* of writeBinaryTree over the child counts followed by its final flush, the
\* reader side is the loop of readBinaryTree, one count per step.

\* the child counts of the packing tables, 6 and 1000 standing for "above 5"
Counts == {0, 1, 2, 3, 4, 5, 6, 1000}

SiInit == SiStart /\ BinStart /\ TxtStart /\ TrStart

\* currPos = writeShortInt(file, count, &currByte, currPos)
SiWrite(v) ==
  /\ siPhase = "write"
  /\ Len(siValues) < MaxCounts
  /\ LET w == writeShortInt(v, currByte, currPos) IN
     /\ ~w.stop
     /\ siOut' = siOut \o w.out
     /\ currByte' = w.currByte
     /\ currPos' = w.ret
  /\ siValues' = Append(siValues, v)
  /\ UNCHANGED <<siPhase, siIn, rdByte, rdIndex, siRead, binVars, txtVars, trVars>>

\* if (currPos != 0) writeByte(file, currByte)
SiFlush ==
  /\ siPhase = "write"
  /\ siOut' = IF currPos # 0 THEN siOut \o writeByte(currByte) ELSE siOut
  /\ siPhase' = "flushed"
  /\ UNCHANGED <<siValues, currByte, currPos, siIn, rdByte, rdIndex, siRead, binVars, txtVars, trVars>>

\* byte currByte = readByte(file); int32_t currIndex = 0
SiStartRead ==
  /\ siPhase = "flushed"
  /\ \E g \in GarbageBytes :
       LET b == readByte(Stream(siOut), g) IN
       /\ siIn' = b.s
       /\ rdByte' = b.val
  /\ rdIndex' = 0
  /\ siPhase' = "read"
  /\ UNCHANGED <<siValues, siOut, currByte, currPos, siRead, binVars, txtVars, trVars>>

\* int32_t currCount = readShortInt(file, &currByte, &currIndex)
SiReadOne ==
  /\ siPhase = "read"
  /\ Len(siRead) < Len(siValues)
  /\ \E g \in GarbageBytes :
       LET r == readShortInt(siIn, rdByte, rdIndex, g) IN
       /\ siRead' = Append(siRead, r.val)
       /\ siIn' = r.s
       /\ rdByte' = r.currByte
       /\ rdIndex' = r.currIndex
  /\ UNCHANGED <<siValues, siOut, currByte, currPos, siPhase, binVars, txtVars, trVars>>

\* if (currIndex == 0) file->seekg(-1, std::ios_base::cur)
SiEndRead ==
  /\ siPhase = "read"
  /\ Len(siRead) = Len(siValues)
  /\ siIn' = IF rdIndex = 0 THEN seekg(siIn, -1, "cur") ELSE siIn
  /\ siPhase' = "done"
  /\ UNCHANGED <<siValues, siOut, currByte, currPos, rdByte, rdIndex, siRead, binVars, txtVars, trVars>>

SiNext ==
  \/ \E v \in Counts : SiWrite(v)
  \/ SiFlush
  \/ SiStartRead
  \/ SiReadOne
  \/ SiEndRead

SpecShortInt == SiInit /\ [][SiNext]_vars

\* C2: every sequence of child counts written by writeShortInt and flushed
\* is returned unchanged, value by value, by readShortInt.
C2_ShortIntRoundTrip ==
  /\ siPhase \in {"read", "done"} => /\ Len(siRead) <= Len(siValues)
                                     /\ siRead = SubSeq(siValues, 1, Len(siRead))
  /\ siPhase = "done" => siRead = siValues

\* a 4-bit code written at cursor 6 (straddling two bytes) was read back
C2_Witness ==
  /\ siPhase = "done"
  /\ siValues = <<1, 0, 4, 1000>>
  /\ siRead = siValues


\* ============================================================ text codecs
\* ((A:1,B:2)X:0.5,C:3)R, (B:1,A:2), (O'B:1,C:2) and (A:0.1234567,D:2)
TreeBA == RTree(1, <<<<66>>, <<65>>>>, <<>>, Cherry, <<Dbl(10000000), Dbl(20000000)>>, <<>>, <<>>)
TreeQuote ==
  RTree(1, <<<<79, 39, 66>>, <<67>>>>, <<>>, Cherry, <<Dbl(10000000), Dbl(20000000)>>,
        <<>>, <<>>)
TreeFine == RTree(1, <<<<65>>, <<68>>>>, <<>>, Cherry, <<Dbl(1234567), Dbl(20000000)>>, <<>>, <<>>)

\* ((A:1,B:2)X:0.5,C:3)R with the numeric attribute Support, 90 at X and
\* unset at the root and the tips
TreeNameSupport ==
  RTree(2, <<<<65>>, <<66>>, <<67>>>>, <<<<82>>, <<88>>>>, Ladder,
        <<Dbl(5000000), Dbl(10000000), Dbl(20000000), Dbl(30000000)>>,
        <<Named(<<83, 117, 112, 112, 111, 114, 116>>, NumVec(<<NaN, NaN, NaN>>))>>,
        <<Named(<<83, 117, 112, 112, 111, 114, 116>>, NumVec(<<NaN, Dbl(900000000)>>))>>)

TextTreePool == {TreeNamed, TreeBA, TreeQuote, TreeFine, TreeNameSupport}

\* tree statements written by hand: (A,B) and (C:1,D:2)E are well formed,
\* in (C[length=x],D) the length of C is not a number
StatementPool ==
  {[text |-> <<40, 65, 44, 66, 41>>, ok |-> TRUE, tips |-> <<<<65>>, <<66>>>>],
   [text |-> <<40, 67, 58, 49, 44, 68, 58, 50, 41, 69>>, ok |-> TRUE, tips |-> <<<<67>>, <<68>>>>],
   [text |-> <<40, 67, 91, 108, 101, 110, 103, 116, 104, 61, 120, 93, 44, 68, 41>>,
    ok |-> FALSE, tips |-> <<>>]}

\* strings written by hand, each with what the format says about its nodes
\* in the order they are met: the child count, the name, the length and the
\* support.  An internal node written (children)S:L:
\* (A:1.0,(B:2.0,C:3.0)90:4.0);  and  ((X:0.5,Y:1.5)7:2,Z:3)100:0;
SourceNode(count, name, length, support) ==
  [count |-> count, name |-> name, length |-> length, support |-> support]

SupportSources ==
  {[text |-> <<40, 65, 58, 49, 46, 48, 44, 40, 66, 58, 50, 46, 48, 44, 67, 58, 51, 46, 48, 41,
      57, 48, 58, 52, 46, 48, 41, 59>>,
    nodes |-> <<SourceNode(2, <<>>, NaN, NaN), SourceNode(0, <<65>>, Dbl(10000000), NaN),
                SourceNode(2, <<>>, Dbl(40000000), Dbl(900000000)),
                SourceNode(0, <<66>>, Dbl(20000000), NaN),
                SourceNode(0, <<67>>, Dbl(30000000), NaN)>>],
   [text |-> <<40, 40, 88, 58, 48, 46, 53, 44, 89, 58, 49, 46, 53, 41, 55, 58, 50, 44, 90, 58,
       51, 41, 49, 48, 48, 58, 48, 59>>,
    nodes |-> <<SourceNode(2, <<>>, Dbl(0), Dbl(1000000000)),
                SourceNode(2, <<>>, Dbl(20000000), Dbl(70000000)),
                SourceNode(0, <<88>>, Dbl(5000000), NaN),
                SourceNode(0, <<89>>, Dbl(15000000), NaN),
                SourceNode(0, <<90>>, Dbl(30000000), NaN)>>]}

\* attribute names that differ in case, on one node and on several:
\* (A[rate=1],B[RATE=2])[Rate=3,SUPPORT=5,name=R,LENGTH=2];
\* (A[support=1,SUPPORT=2],B[Support=3])[col=x,COL=y];
\* (A[rate=1],B[RATE=x])[&Rate=z];
\* (A[NAME=a1,Length=2],B[length=3,name=b1])[treename=T];
CaseSources ==
  {[text |-> <<40, 65, 91, 114, 97, 116, 101, 61, 49, 93, 44, 66, 91, 82, 65, 84, 69, 61, 50, 93,
      41, 91, 82, 97, 116, 101, 61, 51, 44, 83, 85, 80, 80, 79, 82, 84, 61, 53, 44, 110, 97, 109,
          101, 61, 82, 44, 76, 69, 78, 71, 84, 72, 61, 50, 93, 59>>,
    nodes |-> <<SourceNode(2, <<82>>, Dbl(20000000), Dbl(50000000)),
                SourceNode(0, <<65>>, NaN, NaN), SourceNode(0, <<66>>, NaN, NaN)>>],
   [text |-> <<40, 65, 91, 115, 117, 112, 112, 111, 114, 116, 61, 49, 44, 83, 85, 80, 80, 79, 82,
       84, 61, 50, 93, 44, 66, 91, 83, 117, 112, 112, 111, 114, 116, 61, 51, 93, 41, 91, 99, 111,
           108, 61, 120, 44, 67, 79, 76, 61, 121, 93, 59>>,
    nodes |-> <<SourceNode(2, <<>>, NaN, NaN), SourceNode(0, <<65>>, NaN, Dbl(20000000)),
                SourceNode(0, <<66>>, NaN, Dbl(30000000))>>],
   [text |-> <<40, 65, 91, 114, 97, 116, 101, 61, 49, 93, 44, 66, 91, 82, 65, 84, 69, 61, 120,
       93, 41, 91, 38, 82, 97, 116, 101, 61, 122, 93, 59>>,
    nodes |-> <<SourceNode(2, <<>>, NaN, NaN), SourceNode(0, <<65>>, NaN, NaN),
                SourceNode(0, <<66>>, NaN, NaN)>>],
   [text |-> <<40, 65, 91, 78, 65, 77, 69, 61, 97, 49, 44, 76, 101, 110, 103, 116, 104, 61, 50,
       93, 44, 66, 91, 108, 101, 110, 103, 116, 104, 61, 51, 44, 110, 97, 109, 101, 61, 98, 49,
           93, 41, 91, 116, 114, 101, 101, 110, 97, 109, 101, 61, 84, 93, 59>>,
    nodes |-> <<SourceNode(2, <<>>, NaN, NaN), SourceNode(0, <<97, 49>>, Dbl(20000000), NaN),
                SourceNode(0, <<98, 49>>, Dbl(30000000), NaN)>>]}

\* a tree with three levels and nodes of three children:
\* ((A,B,C)x,(D,(E,F)y)z,G)r;
ShapeSources ==
  {[text |-> <<40, 40, 65, 44, 66, 44, 67, 41, 120, 44, 40, 68, 44, 40, 69, 44, 70, 41, 121, 41,
               122, 44, 71, 41, 114, 59>>,
    nodes |-> <<SourceNode(3, <<114>>, NaN, NaN), SourceNode(3, <<120>>, NaN, NaN),
                SourceNode(0, <<65>>, NaN, NaN), SourceNode(0, <<66>>, NaN, NaN),
                SourceNode(0, <<67>>, NaN, NaN), SourceNode(2, <<122>>, NaN, NaN),
                SourceNode(0, <<68>>, NaN, NaN), SourceNode(2, <<121>>, NaN, NaN),
                SourceNode(0, <<69>>, NaN, NaN), SourceNode(0, <<70>>, NaN, NaN),
                SourceNode(0, <<71>>, NaN, NaN)>>]}

\* unbracketed labels after a closing parenthesis and on leaves, with the
\* nodes the format description gives them: a label that is no number is a
\* Name, a number on an internal node is its Support, a quoted label and the
\* label of a leaf are Names.
\* (A,B)1abc;  (A,B)-1;  (A,B).5;  (A,B)'90';  (A,B)90;  (1,2)x1;
LabelSource(text, name, support, first, second) ==
  [text |-> text,
   nodes |-> <<SourceNode(2, name, NaN, support), SourceNode(0, first, NaN, NaN),
               SourceNode(0, second, NaN, NaN)>>]

LabelSources ==
  {LabelSource(<<40, 65, 44, 66, 41, 49, 97, 98, 99, 59>>, <<49, 97, 98, 99>>, NaN, <<65>>, <<66>>),
   LabelSource(<<40, 65, 44, 66, 41, 45, 49, 59>>, <<>>, Dbl(-10000000), <<65>>, <<66>>),
   LabelSource(<<40, 65, 44, 66, 41, 46, 53, 59>>, <<>>, Dbl(5000000), <<65>>, <<66>>),
   LabelSource(<<40, 65, 44, 66, 41, 39, 57, 48, 39, 59>>, <<57, 48>>, NaN, <<65>>, <<66>>),
   LabelSource(<<40, 65, 44, 66, 41, 57, 48, 59>>, <<>>, Dbl(900000000), <<65>>, <<66>>),
   LabelSource(<<40, 49, 44, 50, 41, 120, 49, 59>>, <<120, 49>>, NaN, <<49>>, <<50>>)}

\* bracketed lists giving a Length or a Support, with the nodes the format
\* description gives them (none when the value is no number as a whole and
\* the parse of the tree has to fail):
\* (A[length=2.5],B)[Support=90];  (A[support=x],B);  (A[length=1.5abc],B);
\* (A[SUPPORT=7x],B);
BracketSources ==
  {[text |-> <<40, 65, 91, 108, 101, 110, 103, 116, 104, 61, 50, 46, 53, 93, 44, 66, 41, 91, 83,
      117, 112, 112, 111, 114, 116, 61, 57, 48, 93, 59>>,
    nodes |-> <<SourceNode(2, <<>>, NaN, Dbl(900000000)),
                SourceNode(0, <<65>>, Dbl(25000000), NaN), SourceNode(0, <<66>>, NaN, NaN)>>],
   [text |-> <<40, 65, 91, 115, 117, 112, 112, 111, 114, 116, 61, 120, 93, 44, 66, 41, 59>>,
       nodes |-> <<>>],
   [text |-> <<40, 65, 91, 108, 101, 110, 103, 116, 104, 61, 49, 46, 53, 97, 98, 99, 93, 44, 66,
       41, 59>>, nodes |-> <<>>],
   [text |-> <<40, 65, 91, 83, 85, 80, 80, 79, 82, 84, 61, 55, 120, 93, 44, 66, 41, 59>>,
       nodes |-> <<>>]}

\* tokens after ':' and '/' that are no numbers, with the attribute values
\* the format description gives the root and the two leaves:
\* (A:abc:def,B:2);  (A/x/y/z,B/90);  (A:x/2:3/y,B);  (A[Unknown=q]:x,B);
\* (A[Unknown2=q]:x:y,B);  (A[unknown=q]:x,B);
UnknownSource(text, first, second) ==
  [text |-> text,
   attrs |-> <<{}, first \cup {<<<<78, 97, 109, 101>>, StrVal(<<65>>)>>},
               second \cup {<<<<78, 97, 109, 101>>, StrVal(<<66>>)>>}>>]

UnknownExpected ==
  {UnknownSource(<<40, 65, 58, 97, 98, 99, 58, 100, 101, 102, 44, 66, 58, 50, 41, 59>>,
                 {<<<<85, 110, 107, 110, 111, 119, 110>>, StrVal(<<97, 98, 99>>)>>, <<<<85, 110,
                     107, 110, 111, 119, 110, 50>>, StrVal(<<100, 101, 102>>)>>},
                 {<<<<76, 101, 110, 103, 116, 104>>, NumVal(Dbl(20000000))>>}),
   UnknownSource(<<40, 65, 47, 120, 47, 121, 47, 122, 44, 66, 47, 57, 48, 41, 59>>,
                 {<<<<85, 110, 107, 110, 111, 119, 110>>, StrVal(<<120>>)>>, <<<<85, 110, 107,
                     110, 111, 119, 110, 50>>, StrVal(<<121>>)>>,
                  <<<<85, 110, 107, 110, 111, 119, 110, 51>>, StrVal(<<122>>)>>},
                 {<<<<83, 117, 112, 112, 111, 114, 116>>, NumVal(Dbl(900000000))>>}),
   UnknownSource(<<40, 65, 58, 120, 47, 50, 58, 51, 47, 121, 44, 66, 41, 59>>,
                 {<<<<85, 110, 107, 110, 111, 119, 110>>, StrVal(<<120>>)>>, <<<<83, 117, 112,
                     112, 111, 114, 116>>, NumVal(Dbl(20000000))>>,
                  <<<<76, 101, 110, 103, 116, 104>>, NumVal(Dbl(30000000))>>, <<<<85, 110, 107,
                      110, 111, 119, 110, 50>>, StrVal(<<121>>)>>},
                 {}),
   UnknownSource(<<40, 65, 91, 85, 110, 107, 110, 111, 119, 110, 61, 113, 93, 58, 120, 44, 66,
       41, 59>>,
                 {<<<<85, 110, 107, 110, 111, 119, 110>>, StrVal(<<113>>)>>, <<<<85, 110, 107,
                     110, 111, 119, 110, 50>>, StrVal(<<120>>)>>}, {}),
   UnknownSource(<<40, 65, 91, 85, 110, 107, 110, 111, 119, 110, 50, 61, 113, 93, 58, 120, 58,
       121, 44, 66, 41, 59>>,
                 {<<<<85, 110, 107, 110, 111, 119, 110, 50>>, StrVal(<<113>>)>>, <<<<85, 110,
                     107, 110, 111, 119, 110>>, StrVal(<<120>>)>>,
                  <<<<85, 110, 107, 110, 111, 119, 110, 51>>, StrVal(<<121>>)>>},
                 {}),
   UnknownSource(<<40, 65, 91, 117, 110, 107, 110, 111, 119, 110, 61, 113, 93, 58, 120, 44, 66,
       41, 59>>,
                 {<<<<117, 110, 107, 110, 111, 119, 110>>, StrVal(<<113>>)>>, <<<<85, 110, 107,
                     110, 111, 119, 110, 50>>, StrVal(<<120>>)>>}, {})}

UnknownSources == {[text |-> e.text, nodes |-> <<>>] : e \in UnknownExpected}

\* commas inside nested parentheses, brackets, braces and quotes, and an
\* escaped comma, with the children of the outermost node (white space
\* outside quotes gone) and the child count and the name of every node:
\* ((A,B)[c={1,2},d=[3,4]],'C,D',E\,F,"G,H",I)r;
\* ( (A , B) x , ( C,(D,E),F ) , G );   ((A\,B,C),D);   (A);   (A,,B);
SplitNode(count, name) == SourceNode(count, name, NaN, NaN)

SplitExpected ==
  {[text |-> <<40, 40, 65, 44, 66, 41, 91, 99, 61, 123, 49, 44, 50, 125, 44, 100, 61, 91, 51, 44,
      52, 93, 93, 44, 39, 67, 44, 68, 39, 44, 69, 92, 44, 70, 44, 34, 71, 44, 72, 34, 44, 73, 41,
          114, 59>>,
    children |-> <<<<40, 65, 44, 66, 41, 91, 99, 61, 123, 49, 44, 50, 125, 44, 100, 61, 91, 51,
        44, 52, 93, 93>>, <<39, 67, 44, 68, 39>>, <<69, 92, 44, 70>>, <<34, 71, 44, 72, 34>>,
            <<73>>>>,
    nodes |-> <<SplitNode(5, <<114>>), SplitNode(2, <<>>), SplitNode(0, <<65>>), SplitNode(0,
        <<66>>),
                SplitNode(0, <<67, 44, 68>>), SplitNode(0, <<69, 92, 44, 70>>), SplitNode(0,
                    <<71, 44, 72>>),
                SplitNode(0, <<73>>)>>],
   [text |-> <<40, 32, 40, 65, 32, 44, 32, 66, 41, 32, 120, 32, 44, 32, 40, 32, 67, 44, 40, 68,
       44, 69, 41, 44, 70, 32, 41, 32, 44, 32, 71, 32, 41, 59>>,
    children |-> <<<<40, 65, 44, 66, 41, 120>>, <<40, 67, 44, 40, 68, 44, 69, 41, 44, 70, 41>>,
        <<71>>>>,
    nodes |-> <<SplitNode(3, <<>>), SplitNode(2, <<120>>), SplitNode(0, <<65>>), SplitNode(0,
        <<66>>),
                SplitNode(3, <<>>), SplitNode(0, <<67>>), SplitNode(2, <<>>), SplitNode(0, <<68>>),
                SplitNode(0, <<69>>), SplitNode(0, <<70>>), SplitNode(0, <<71>>)>>],
   [text |-> <<40, 40, 65, 92, 44, 66, 44, 67, 41, 44, 68, 41, 59>>,
    children |-> <<<<40, 65, 92, 44, 66, 44, 67, 41>>, <<68>>>>,
    nodes |-> <<SplitNode(2, <<>>), SplitNode(2, <<>>), SplitNode(0, <<65, 92, 44, 66>>),
                SplitNode(0, <<67>>), SplitNode(0, <<68>>)>>],
   [text |-> <<40, 65, 41, 59>>, children |-> <<<<65>>>>,
    nodes |-> <<SplitNode(1, <<>>), SplitNode(0, <<65>>)>>],
   [text |-> <<40, 65, 44, 44, 66, 41, 59>>, children |-> <<<<65>>, <<>>, <<66>>>>, nodes |-> <<>>]}

SplitSources == {[text |-> e.text, nodes |-> e.nodes] : e \in SplitExpected}

SourcePool ==
  SupportSources \cup CaseSources \cup ShapeSources \cup LabelSources \cup BracketSources
    \cup UnknownSources \cup SplitSources

\* Translate statements written by hand, as token/name pairs: none,
\* 1 Alpha, 2 Beta;  1 Alpha, 2 Beta, n1 Clade;  and  1 2, 2 Beta
PairsPool ==
  {<<>>,
   <<<<<<49>>, <<65, 108, 112, 104, 97>>>>, <<<<50>>, <<66, 101, 116, 97>>>>>>,
   <<<<<<49>>, <<65, 108, 112, 104, 97>>>>, <<<<50>>, <<66, 101, 116, 97>>>>, <<<<110, 49>>,
       <<67, 108, 97, 100, 101>>>>>>,
   <<<<<<49>>, <<50>>>>, <<<<50>>, <<66, 101, 116, 97>>>>>>}

\* tree statements for them, two with brackets before the tree:
\* (1:1,2:2), ((1:1,2:2)n1:1,Gamma:1)r, [&R] (2,Alpha)x and
\* [rate=5,RATE=6,Support=7] (1:1,Gamma:2)
PayloadPool ==
  {[text |-> <<40, 49, 58, 49, 44, 50, 58, 50, 41>>, ok |-> TRUE, tips |-> <<<<49>>, <<50>>>>],
   [text |-> <<40, 40, 49, 58, 49, 44, 50, 58, 50, 41, 110, 49, 58, 49, 44, 71, 97, 109, 109, 97,
            58, 49, 41, 114>>,
    ok |-> TRUE, tips |-> <<<<49>>, <<50>>, <<71, 97, 109, 109, 97>>>>],
   [text |-> <<91, 38, 82, 93, 32, 40, 50, 44, 65, 108, 112, 104, 97, 41, 120>>,
    ok |-> TRUE, tips |-> <<<<50>>, <<65, 108, 112, 104, 97>>>>],
   [text |-> <<91, 114, 97, 116, 101, 61, 53, 44, 82, 65, 84, 69, 61, 54, 44, 83, 117, 112, 112,
            111, 114, 116, 61, 55, 93, 32, 40, 49, 58, 49, 44, 71, 97, 109, 109, 97, 58, 50, 41>>,
    ok |-> TRUE, tips |-> <<<<49>>, <<71, 97, 109, 109, 97>>>>]}

\* the NEXUS file with a Trees block holding the Translate statement of the
\* pairs (when there are any) and "Tree t<i> = ...;" for the statements
NexusText(pairs, statements) ==
  LET P[k \in 0..Len(pairs)] ==
        IF k = 0 THEN <<>>
        ELSE P[k - 1] \o <<9, 9>> \o pairs[k][1] \o <<32>> \o pairs[k][2]
               \o (IF k < Len(pairs) THEN <<44, 10>> ELSE <<10, 9, 9, 59, 10>>)
      F[i \in 0..Len(statements)] ==
        IF i = 0 THEN <<>>
        ELSE F[i - 1] \o <<9, 84, 114, 101, 101, 32, 116>> \o <<48 + i>> \o <<32, 61,
            32>> \o statements[i].text \o <<59, 10>>
  IN <<35, 78, 69, 88, 85, 83, 10, 66, 101, 103, 105, 110, 32, 84, 114, 101, 101, 115, 59, 10>>
       \o (IF pairs = <<>> THEN <<>> ELSE <<9, 84, 114, 97, 110, 115, 108, 97, 116, 101,
           10>> \o P[Len(pairs)])
       \o F[Len(statements)] \o <<69, 110, 100, 59, 10>>

\* what an uninitialised char may hold
GarbageChars == {0, 32, 59}

\* the text holding the statements: one per line for a string or an NWKA
\* file, "Tree t<i> = ..." in a Trees block for a NEXUS file
BatchText(kind, statements) ==
  LET F[i \in 0..Len(statements)] ==
        IF i = 0 THEN <<>>
        ELSE F[i - 1]
               \o (IF kind = "nexus" THEN <<9, 84, 114, 101, 101, 32, 116, 48 + i, 32, 61, 32>>
                   ELSE <<>>)
               \o statements[i].text \o <<59, 10>>
  IN IF kind = "nexus"
     THEN <<35, 78, 69, 88, 85, 83, 10,
            66, 101, 103, 105, 110, 32, 84, 114, 101, 101, 115, 59, 10>>
            \o F[Len(statements)] \o <<69, 110, 100, 59, 10>>
     ELSE F[Len(statements)]

readVars == <<txTk, txStatus, txWord, txDict, txTrees, txNames, txWarnings, txCount>>

\* toString(tree, nwka = true) handed to parseNWKAStringOneTree
RoundTripTree(tree) ==
  /\ txPhase = "idle"
  /\ \E converted \in {convertTrees(<<tree>>, ListNames(1))[1]} :
       \E w \in {toString(converted)} :
         /\ w.st = "ok"
         /\ txOne' = [tree |-> converted, written |-> w,
                      parsed |-> parseNWKAStringOneTree(w.out)]
  /\ txKind' = "tree"
  /\ txPhase' = "single"
  /\ UNCHANGED <<txGiven, txText, readVars, siVars, binVars, trVars>>

\* parseNWKAStringOneTree on a string written by hand
ParseString(source) ==
  /\ txPhase = "idle"
  /\ txOne' = [tree |-> EmptyPhylo, written |-> [out |-> source.text, st |-> "ok"],
               parsed |-> parseNWKAStringOneTree(source.text)]
  /\ txGiven' = [txGiven EXCEPT !.nodes = source.nodes]
  /\ txKind' = "source"
  /\ txPhase' = "parsed"
  /\ UNCHANGED <<txText, readVars, siVars, binVars, trVars>>

\* Rcpp_multiPhylo_to_string(trees, nwka = TRUE, singleQuoted)
WriteString(trees) ==
  /\ txPhase = "idle"
  /\ \E w \in {Rcpp_multiPhylo_to_string(trees, ListNames(Len(trees)))} :
       /\ w.st = "ok"
       /\ txText' = w.out
  /\ txKind' = "string"
  /\ txGiven' = [txGiven EXCEPT !.trees = convertTrees(trees, ListNames(Len(trees)))]
  /\ txPhase' = "ready"
  /\ UNCHANGED <<txOne, readVars, siVars, binVars, trVars>>

\* Rcpp_multiPhylo_to_file(trees, fileName, nwka = TRUE, singleQuoted, append = FALSE)
WriteFile(trees) ==
  /\ txPhase = "idle"
  /\ \E w \in {Rcpp_multiPhylo_to_string(trees, ListNames(Len(trees)))} :
       /\ w.st = "ok"
       /\ txText' = w.out
  /\ txKind' = "file"
  /\ txGiven' = [txGiven EXCEPT !.trees = convertTrees(trees, ListNames(Len(trees)))]
  /\ txPhase' = "ready"
  /\ UNCHANGED <<txOne, readVars, siVars, binVars, trVars>>

\* Rcpp_multiPhylo_to_nexus(trees, fileName, translate, translateQuotes)
WriteNexus(trees, translate, translateQuotes) ==
  /\ txPhase = "idle"
  /\ \E w \in {Rcpp_multiPhylo_to_nexus(trees, ListNames(Len(trees)), translate,
                                        translateQuotes)} :
       /\ w.st = "ok"
       /\ txText' = w.out
  /\ txKind' = "nexus"
  /\ txGiven' = [txGiven EXCEPT !.trees = convertTrees(trees, ListNames(Len(trees))),
                                !.translate = translate,
                                !.translateQuotes = translateQuotes]
  /\ txPhase' = "ready"
  /\ UNCHANGED <<txOne, readVars, siVars, binVars, trVars>>

\* a string or file that another program, or a person, has written
ProvideBatch(kind, statements) ==
  /\ txPhase = "idle"
  /\ txText' = BatchText(kind, statements)
  /\ txKind' = kind
  /\ txGiven' = [txGiven EXCEPT !.statements = statements]
  /\ txPhase' = "ready"
  /\ UNCHANGED <<txOne, readVars, siVars, binVars, trVars>>

\* a NEXUS file that another program, or a person, has written, with a
\* Translate statement
ProvideNexus(pairs, statements) ==
  /\ txPhase = "idle"
  /\ txText' = NexusText(pairs, statements)
  /\ txKind' = "nexus"
  /\ txGiven' = [txGiven EXCEPT !.statements = statements, !.pairs = pairs]
  /\ txPhase' = "ready"
  /\ UNCHANGED <<txOne, readVars, siVars, binVars, trVars>>

\* NEXUS files written by hand.  BlocksFile has tree and translate
\* statements outside any block and in a Taxa block, a Trees block with one
\* tree and a block of an unknown name; CommentsFile has a comment holding
\* statements and block words at every place a comment is looked for.
BlocksFile ==
  <<35, 78, 69, 88, 85, 83, 10, 116, 114, 101, 101, 32, 116, 48, 32, 61, 32, 40, 88, 44, 89,
    41, 59, 10, 116, 114, 97, 110, 115, 108, 97, 116, 101, 32, 49, 32, 90, 59, 10, 66, 101,
    103, 105, 110, 32, 116, 97, 120, 97, 59, 10, 32, 116, 114, 101, 101, 32, 116, 49, 32, 61,
    32, 40, 80, 44, 81, 41, 59, 10, 32, 116, 114, 97, 110, 115, 108, 97, 116, 101, 32, 49, 32,
    87, 59, 10, 69, 78, 68, 59, 10, 98, 101, 103, 105, 110, 32, 84, 82, 69, 69, 83, 59, 10, 32,
    84, 114, 101, 101, 32, 116, 50, 32, 61, 32, 40, 49, 44, 66, 41, 59, 10, 69, 110, 100, 59,
    10, 66, 101, 103, 105, 110, 32, 102, 111, 111, 59, 10, 69, 110, 100, 59, 10, 116, 114, 101,
    101, 32, 116, 51, 32, 61, 32, 40, 82, 44, 83, 41, 59, 10>>

CommentsFile ==
  <<35, 78, 69, 88, 85, 83, 10, 91, 66, 101, 103, 105, 110, 32, 116, 114, 101, 101, 115, 59,
    32, 116, 114, 101, 101, 32, 120, 32, 61, 32, 40, 65, 44, 66, 41, 59, 93, 10, 66, 101, 103,
    105, 110, 32, 111, 116, 104, 101, 114, 59, 10, 32, 91, 69, 110, 100, 59, 32, 116, 114, 101,
    101, 32, 121, 32, 61, 32, 40, 65, 44, 66, 41, 59, 93, 10, 69, 110, 100, 59, 10, 66, 101,
    103, 105, 110, 32, 116, 114, 101, 101, 115, 59, 10, 32, 91, 69, 110, 100, 59, 32, 84, 114,
    97, 110, 115, 108, 97, 116, 101, 32, 57, 32, 78, 105, 110, 101, 59, 93, 10, 32, 84, 114,
    97, 110, 115, 108, 97, 116, 101, 32, 91, 56, 32, 69, 105, 103, 104, 116, 59, 93, 32, 49,
    32, 65, 108, 112, 104, 97, 44, 32, 91, 55, 32, 83, 101, 118, 101, 110, 93, 32, 50, 32, 66,
    101, 116, 97, 59, 10, 32, 84, 114, 101, 101, 32, 91, 116, 57, 32, 61, 32, 40, 67, 44, 68,
    41, 59, 93, 32, 116, 49, 32, 61, 32, 40, 49, 44, 50, 41, 59, 10, 69, 110, 100, 59, 10>>

NexusFiles == {BlocksFile, CommentsFile}

\* a NEXUS file that another program, or a person, has written
ProvideNexusFile(text) ==
  /\ txPhase = "idle"
  /\ txText' = text
  /\ txKind' = "nexus"
  /\ txPhase' = "ready"
  /\ UNCHANGED <<txGiven, txOne, readVars, siVars, binVars, trVars>>

\* Rcpp_read_nwka_string(source): the locals of parseNWKAString
ReadNWKAString ==
  /\ txKind = "string"
  /\ txPhase = "ready"
  /\ txTk' = Tokenizer(0, NoStream)
  /\ txPhase' = "reading"
  /\ UNCHANGED <<txKind, txGiven, txText, txOne, txStatus, txWord, txDict, txTrees, txNames,
                 txWarnings, txCount, siVars, binVars, trVars>>

\* one iteration of  while (!eof)  in parseNWKAString
ParseNWKAStringStep ==
  /\ txKind = "string"
  /\ txPhase = "reading"
  /\ \E rs \in {ReadStatementString(txText, [tk |-> nextToken(txText, txTk), sb |-> <<>>],
                                    Len(txText) + 1)} :
       \E r \in {IF rs.sb = <<>>
                 THEN [st |-> "ok", trees |-> txTrees, treeNames |-> txNames, warnings |-> <<>>]
                 ELSE PushTree(rs.sb, txTrees, txNames)} :
         /\ txTk' = rs.tk
         /\ txTrees' = r.trees
         /\ txNames' = r.treeNames
         /\ txWarnings' = txWarnings \o r.warnings
         /\ txCount' = IF rs.sb = <<>> THEN txCount ELSE txCount + 1
         /\ txPhase' = IF r.st = "ub" THEN "ub"
                       ELSE IF r.st = "break" \/ rs.tk.eof THEN "returned"
                       ELSE "reading"
  /\ UNCHANGED <<txKind, txGiven, txText, txOne, txStatus, txWord, txDict, siVars, binVars, trVars>>

\* Rcpp_read_nwka_file(fileName): the file is opened, the locals of
\* parseNWKAFile
ReadNWKAFile ==
  /\ txKind = "file"
  /\ txPhase = "ready"
  /\ txTk' = Tokenizer(0, Stream(txText))
  /\ txPhase' = "reading"
  /\ UNCHANGED <<txKind, txGiven, txText, txOne, txStatus, txWord, txDict, txTrees, txNames,
                 txWarnings, txCount, siVars, binVars, trVars>>

\* one iteration of  while (!eof)  in parseNWKAFile
ParseNWKAFileStep ==
  /\ txKind = "file"
  /\ txPhase = "reading"
  /\ \E g \in GarbageChars :
     \E rs \in {ReadStatementFile([tk |-> nextTokenFile(txTk, g), sb |-> <<>>], g,
                                  Len(txText) + 1)} :
       \E r \in {IF rs.sb = <<>>
                 THEN [st |-> "ok", trees |-> txTrees, treeNames |-> txNames, warnings |-> <<>>]
                 ELSE PushTree(rs.sb, txTrees, txNames)} :
         /\ txTk' = rs.tk
         /\ txTrees' = r.trees
         /\ txNames' = r.treeNames
         /\ txWarnings' = txWarnings \o r.warnings
         /\ txCount' = IF rs.sb = <<>> THEN txCount ELSE txCount + 1
         /\ txPhase' = IF r.st = "ub" THEN "ub"
                       ELSE IF r.st = "break" \/ rs.tk.eof THEN "returned"
                       ELSE "reading"
  /\ UNCHANGED <<txKind, txGiven, txText, txOne, txStatus, txWord, txDict, siVars, binVars, trVars>>

\* Rcpp_read_nexus_file(fileName): the file is opened and the first word read
ReadNexusFile ==
  /\ txKind = "nexus"
  /\ txPhase = "ready"
  /\ \E g \in GarbageChars :
       \E w \in {nextWord(Stream(txText), g)} :
         /\ txTk' = [Tokenizer(0, w.s) EXCEPT !.eof = w.eof]
         /\ txWord' = w.word
         /\ txPhase' = IF w.eof THEN "returned" ELSE "reading"
  /\ txStatus' = "Root"
  /\ txDict' = [x \in {} |-> <<>>]
  /\ UNCHANGED <<txKind, txGiven, txText, txOne, txTrees, txNames, txWarnings, txCount,
                 siVars, binVars, trVars>>

\* one iteration of  while (!eof)  in parseNEXUSFile: the switch, then
\* word = nextWord(&file, &eof).  An exception that leaves the function
\* ends the call with an R error: nothing is returned.
ParseNEXUSFileStep ==
  /\ txKind = "nexus"
  /\ txPhase = "reading"
  /\ \E g \in GarbageChars :
       \E r \in {parseNEXUSSwitch([status |-> txStatus, word |-> txWord, tk |-> txTk,
                                   dict |-> txDict, trees |-> txTrees,
                                   treeNames |-> txNames, count |-> txCount], g)} :
         IF r.st # "ok"
         THEN /\ txPhase' = IF r.st = "ub" THEN "ub" ELSE "error"
              /\ txTk' = r.tk
              /\ txCount' = r.count
              /\ txTrees' = <<>>
              /\ txNames' = <<>>
              /\ UNCHANGED <<txStatus, txWord, txDict>>
         ELSE \E w \in {nextWord(r.tk.s, g)} :
                /\ txTk' = [r.tk EXCEPT !.s = w.s, !.eof = w.eof]
                /\ txWord' = w.word
                /\ txStatus' = r.status
                /\ txDict' = r.dict
                /\ txTrees' = r.trees
                /\ txNames' = r.treeNames
                /\ txCount' = r.count
                /\ txPhase' = IF w.eof THEN "returned" ELSE "reading"
  /\ UNCHANGED <<txKind, txGiven, txText, txOne, txWarnings, siVars, binVars, trVars>>

TextInit == TxtStart /\ SiStart /\ BinStart /\ TrStart

TextNext ==
  \/ \E tree \in TextTreePool : RoundTripTree(tree)
  \/ \E source \in SourcePool : ParseString(source)
  \/ \E n \in 1..MaxTextTrees : \E trees \in [1..n -> TextTreePool] : WriteString(trees)
  \/ \E n \in 1..MaxTextTrees : \E trees \in [1..n -> TextTreePool] : WriteFile(trees)
  \/ \E n \in 1..MaxTextTrees : \E trees \in [1..n -> TextTreePool] :
       \E translate \in BOOLEAN : \E translateQuotes \in BOOLEAN :
         WriteNexus(trees, translate, translateQuotes)
  \/ \E kind \in {"string", "file", "nexus"} :
       \E n \in 1..MaxTextTrees : \E statements \in [1..n -> StatementPool] :
         ProvideBatch(kind, statements)
  \/ \E pairs \in PairsPool :
       \E n \in 1..MaxTextTrees : \E statements \in [1..n -> PayloadPool] :
         ProvideNexus(pairs, statements)
  \/ \E text \in NexusFiles : ProvideNexusFile(text)
  \/ ReadNWKAString
  \/ ParseNWKAStringStep
  \/ ReadNWKAFile
  \/ ParseNWKAFileStep
  \/ ReadNexusFile
  \/ ParseNEXUSFileStep

SpecText == TextInit /\ [][TextNext]_vars

\* ------------------------------------------------------------ all decoders
\* A session works with one codec: the binary functions are called while
\* the text codecs are untouched, and the other way round.
DecodersNext ==
  \/ TxtStart /\ BinNext
  \/ BinStart /\ TextNext

SpecDecoders == BinInit /\ [][DecodersNext]_vars

\* ------------------------------------------------------------ properties
\* sub occurs in text
Contains(text, sub) ==
  \E i \in 0..(Len(text) - Len(sub)) : SubSeq(text, i + 1, i + Len(sub)) = sub

\* the tip labels of a tree (1-based ids) in DFS order
TipLabelsInOrder(tree) ==
  LET view == TreeView(tree)
      F[i \in -1..(NodeTotal(tree) - 1)] ==
        IF i = -1 THEN <<>>
        ELSE IF view[i].count = 0 THEN Append(F[i - 1], view[i].label) ELSE F[i - 1]
  IN F[NodeTotal(tree) - 1]

\* two lengths that std::to_string's six decimals cannot tell apart
SameLength(x, y) ==
  IF x.isNaN \/ y.isNaN THEN x.isNaN /\ y.isNaN
  ELSE x.v - y.v <= 5 /\ y.v - x.v <= 5

\* the distinct tip labels of the trees in first-seen order
FirstSeenLabels(trees) ==
  LET Seen[i \in 0..Len(trees)] ==
        IF i = 0 THEN <<>>
        ELSE LET G[j \in 0..Len(trees[i].tipLabel)] ==
                   IF j = 0 THEN Seen[i - 1]
                   ELSE IF \E k \in 1..Len(G[j - 1]) : G[j - 1][k] = trees[i].tipLabel[j]
                   THEN G[j - 1]
                   ELSE Append(G[j - 1], trees[i].tipLabel[j])
             IN G[Len(trees[i].tipLabel)]
  IN Seen[Len(trees)]

\* the line "\tTree <name> = <body>\n"
TreeLine(name, body) ==
  <<9, 84, 114, 101, 101, 32>> \o name \o <<32, 61, 32>> \o body \o <<10>>

\* C3: parsing the string the NWKA serializer produces for a tree yields a
\* tree with the same child counts in DFS order, the same tip labels in the
\* same DFS order and the same edge lengths up to six decimals.
C3_NWKARoundTrip ==
  txPhase = "single" =>
    /\ txOne.parsed.st = "ok"
    /\ NodeTotal(txOne.parsed.tree) = NodeTotal(txOne.tree)
    /\ LET written == TreeView(txOne.tree)
           parsed == TreeView(OneBased(txOne.parsed.tree))
       IN \A i \in DOMAIN written :
            /\ parsed[i].count = written[i].count
            /\ written[i].count = 0 => parsed[i].label = written[i].label
            /\ SameLength(parsed[i].length, written[i].length)

\* C4: with a translate table the NEXUS writer gives the k-th distinct tip
\* label in first-seen order the token k, the Translate statement lists
\* exactly these token/name pairs, every tip of every tree body is written
\* as its token, and the NEXUS reader gives every tree its original tip
\* labels back.
C4_TranslateTable ==
  (/\ txKind = "nexus" /\ txGiven.trees # <<>> /\ txGiven.translate
   /\ txPhase \in {"returned", "error", "ub"}) =>
    LET labels == FirstSeenLabels(txGiven.trees)
        quote == IF txGiven.translateQuotes THEN <<39>> ELSE <<>>
        token(label) == IntToString(CHOOSE k \in 1..Len(labels) : labels[k] = label)
    IN /\ \A k \in 1..Len(labels) :
            \E end \in {<<10>>, <<44, 10>>} :
              Contains(txText, <<9, 9>> \o IntToString(k) \o <<32>> \o quote \o labels[k]
                                 \o quote \o end)
       /\ DOMAIN txDict = {IntToString(k) : k \in 1..Len(labels)}
       /\ \A i \in 1..Len(txGiven.trees) :
            Contains(txText,
                     TreeLine(ListNames(Len(txGiven.trees))[i],
                              toString([txGiven.trees[i] EXCEPT
                                          !.tipLabel = [j \in 1..Len(@) |-> token(@[j])]]).out))
       /\ txPhase = "returned"
       /\ Len(txTrees) = Len(txGiven.trees)
       /\ \A i \in 1..Len(txGiven.trees) :
            TipLabelsInOrder(OneBased(txTrees[i])) = TipLabelsInOrder(txGiven.trees[i])

\* C5: without translation the NEXUS writer writes every tip of every tree
\* body with its original label and emits neither a Taxa block nor a
\* Translate statement.
C5_NoTranslation ==
  (txKind = "nexus" /\ txGiven.trees # <<>> /\ ~txGiven.translate) =>
    /\ \A i \in 1..Len(txGiven.trees) :
         Contains(txText, TreeLine(ListNames(Len(txGiven.trees))[i],
                                   toString(txGiven.trees[i]).out))
    /\ ~Contains(txText, <<84, 97, 120, 97>>)
    /\ ~Contains(txText, <<84, 114, 97, 110, 115, 108, 97, 116, 101>>)

\* C10: when tree statement k of a string, an NWKA file or a NEXUS file
\* fails to parse, the reader warns naming k, consumes no further statement
\* and returns the k-1 trees parsed before it with their names.
C10_FailingStatement ==
  (/\ txGiven.statements # <<>>
   /\ \E i \in 1..Len(txGiven.statements) : ~txGiven.statements[i].ok
   /\ txPhase \in {"returned", "error", "ub"}) =>
    LET k == CHOOSE i \in 1..Len(txGiven.statements) :
               /\ ~txGiven.statements[i].ok
               /\ \A j \in 1..(i - 1) : txGiven.statements[j].ok
    IN /\ txPhase = "returned"
       /\ txWarnings = <<k>>
       /\ txCount = k
       /\ Len(txTrees) = k - 1
       /\ Len(txNames) = k - 1
       /\ \A i \in 1..(k - 1) :
            /\ TipLabelsInOrder(OneBased(txTrees[i])) = txGiven.statements[i].tips
            /\ txNames[i] = IF txKind = "nexus" THEN <<116, 48 + i>>
                            ELSE <<116, 114, 101, 101>> \o IntToString(i)


\* what a parsed tree (0-based ids) says about its nodes in DFS order: the
\* child count and the values in the slots spelled "Name", "Length" and
\* "Support" (an empty name, a NaN when there is no such slot)
ParsedNodes(tree) ==
  LET t == OneBased(tree)
      tr == Traversal(t)
      slots(name, isNumeric) == {j \in 1..Len(t.attributes) : t.attributes[j] = Attr(name,
          isNumeric)}
      value(name, isNumeric, node) ==
        IF slots(name, isNumeric) = {} THEN (IF isNumeric THEN NumVal(NaN) ELSE StrVal(<<>>))
        ELSE NodeValue(t, CHOOSE j \in slots(name, isNumeric) : TRUE, node)
  IN [i \in 1..NodeTotal(t) |->
        SourceNode(Len(tr.sortedChildren[i - 1]),
                   value(<<78, 97, 109, 101>>, FALSE, tr.sortedNodes[i - 1]).s,
                   value(<<76, 101, 110, 103, 116, 104>>, TRUE, tr.sortedNodes[i - 1]).d,
                   value(<<83, 117, 112, 112, 111, 114, 116>>, TRUE, tr.sortedNodes[i - 1]).d)]

C12_TranslateLabels ==
  (/\ txKind = "nexus" /\ txGiven.pairs # <<>>
   /\ txPhase \in {"returned", "error", "ub"}) =>
    LET pairs == txGiven.pairs
        mapped(label) ==
          IF \E k \in 1..Len(pairs) : pairs[k][1] = label
          THEN pairs[CHOOSE k \in 1..Len(pairs) : pairs[k][1] = label][2]
          ELSE label
    IN /\ txPhase = "returned"
       /\ Len(txTrees) = Len(txGiven.statements)
       /\ \A i \in 1..Len(txGiven.statements) :
            LET payload == parseNWKAStringOneTree(txGiven.statements[i].text).tree
            IN /\ txTrees[i].tipLabel =
                    [j \in 1..Len(payload.tipLabel) |-> mapped(payload.tipLabel[j])]
               /\ txTrees[i].nodeLabel =
                    [j \in 1..Len(payload.nodeLabel) |-> mapped(payload.nodeLabel[j])]
               /\ (pairs = <<<<<<49>>, <<65, 108, 112, 104, 97>>>>, <<<<50>>, <<66, 101, 116,
                   97>>>>>>
                     /\ txGiven.statements[i].text = <<40, 49, 58, 49, 44, 50, 58, 50, 41>>)
                    => txTrees[i].tipLabel = <<<<65, 108, 112, 104, 97>>, <<66, 101, 116, 97>>>>

C12_Witness ==
  /\ txKind = "nexus"
  /\ txPhase = "returned"
  /\ txGiven.pairs = <<<<<<49>>, <<65, 108, 112, 104, 97>>>>, <<<<50>>, <<66, 101, 116, 97>>>>,
      <<<<110, 49>>, <<67, 108, 97, 100, 101>>>>>>
  /\ Len(txTrees) = 2
  /\ txTrees[1].tipLabel = <<<<65, 108, 112, 104, 97>>, <<66, 101, 116, 97>>>>
  /\ txTrees[2].tipLabel = <<<<65, 108, 112, 104, 97>>, <<66, 101, 116, 97>>, <<71, 97, 109, 109,
      97>>>>
  /\ txTrees[2].nodeLabel = <<<<114>>, <<67, 108, 97, 100, 101>>>>


\* two names that differ at most in the case of their letters
SameNameCI(a, b) ==
  /\ Len(a) = Len(b)
  /\ \A k \in 1..Len(a) : tolower(a[k]) = tolower(b[k])

\* the slots of an attribute list with this name, whatever the case, and type
SlotsCI(attributes, name, isNumeric) ==
  {j \in 1..Len(attributes) :
     SameNameCI(attributes[j].AttributeName, name) /\ attributes[j].IsNumeric = isNumeric}

\* C13: in a tree the NWKA parser produces, attributes whose names differ
\* only in case and have the same type occupy one slot of the attribute
\* list, and the reserved names are stored as "Name", "Length", "Support".
C13_CaseInsensitiveSlots ==
  (txPhase = "parsed" /\ \E source \in CaseSources : source.text = txOne.written.out) =>
    LET attributes == txOne.parsed.tree.attributes
    IN /\ txOne.parsed.st = "ok"
       /\ \A j \in 1..Len(attributes) :
            /\ SlotsCI(attributes, attributes[j].AttributeName, attributes[j].IsNumeric) = {j}
            /\ \A reserved \in {<<78, 97, 109, 101>>, <<76, 101, 110, 103, 116, 104>>, <<83, 117,
                112, 112, 111, 114, 116>>} :
                 SameNameCI(attributes[j].AttributeName, reserved)
                   => attributes[j].AttributeName = reserved
       /\ ParsedNodes(txOne.parsed.tree) = txGiven.nodes

C13_Witness ==
  /\ txPhase = "parsed"
  /\ txOne.written.out = <<40, 65, 91, 114, 97, 116, 101, 61, 49, 93, 44, 66, 91, 82, 65, 84, 69,
      61, 50, 93, 41, 91, 82, 97, 116, 101, 61, 51, 44, 83, 85, 80, 80, 79, 82, 84, 61, 53, 44,
          110, 97, 109, 101, 61, 82, 44, 76, 69, 78, 71, 84, 72, 61, 50, 93, 59>>
  /\ txOne.parsed.st = "ok"
  /\ Cardinality(SlotsCI(txOne.parsed.tree.attributes, <<114, 97, 116, 101>>, TRUE)) = 1
  /\ txOne.parsed.tree.tipAttributes[CHOOSE j \in SlotsCI(txOne.parsed.tree.attributes,
                                                          <<114, 97, 116, 101>>, TRUE) : TRUE].d
       = <<Dbl(10000000), Dbl(20000000)>>


\* the attribute list and the vectors of a tree fit together: as many
\* vectors as attributes, every vector of the declared type and as long as
\* there are tips or internal nodes, and no two attributes with the same
\* name (whatever the case) and type
WellFormedAttributes(tree) ==
  /\ Len(tree.tipAttributes) = Len(tree.attributes)
  /\ Len(tree.nodeAttributes) = Len(tree.attributes)
  /\ \A j \in 1..Len(tree.attributes) :
       /\ tree.tipAttributes[j].isNum = tree.attributes[j].IsNumeric
       /\ tree.nodeAttributes[j].isNum = tree.attributes[j].IsNumeric
       /\ Len(IF tree.attributes[j].IsNumeric THEN tree.tipAttributes[j].d
              ELSE tree.tipAttributes[j].s) = Len(tree.tipLabel)
       /\ Len(IF tree.attributes[j].IsNumeric THEN tree.nodeAttributes[j].d
              ELSE tree.nodeAttributes[j].s) = tree.Nnode
       /\ SlotsCI(tree.attributes, tree.attributes[j].AttributeName,
                  tree.attributes[j].IsNumeric) = {j}

\* C14: every tree a decoder returns (the binary reader, the NWKA parser,
\* the NEXUS reader) has as many tip and node vectors as attributes, every
\* vector of the declared type and of the length of the tip or internal
\* node count, and no two attributes with the same case-insensitive name
\* and the same type.
C14_DecodedTreesWellFormed ==
  /\ \A i \in 1..Len(parsedTrees) : WellFormedAttributes(parsedTrees[i])
  /\ \A i \in 1..Len(txTrees) : WellFormedAttributes(txTrees[i])
  /\ (txPhase \in {"single", "parsed"} /\ txOne.parsed.st = "ok")
       => WellFormedAttributes(txOne.parsed.tree)


\* the unified node ids of a decoded tree (0-based): tipCount + Nnode - 1
\* edges; every node but the root is the child of exactly one edge and the
\* root of none; no tip is a parent; the edges come in DFS pre-order (the
\* parent of an edge is the child of the edge before it or one of that
\* child's ancestors), the ids of the tips and those of the internal nodes
\* each counting up along them
UnifiedIds(tree) ==
  LET tipCount == Len(tree.tipLabel)
      total == tipCount + tree.Nnode
      root == IF tree.Nnode > 0 THEN tipCount ELSE 0
      n == Len(tree.edge)
      childAt(k) == tree.edge[k][2]
      parentAt(k) == tree.edge[k][1]
      \* the ids met above the child of edge k, the root included
      Above[k \in 0..n] ==
        IF k = 0 THEN {}
        ELSE {parentAt(k)}
               \cup UNION {Above[j] : j \in {x \in 1..(k - 1) : childAt(x) = parentAt(k)}}
      tipsMet(k) == Cardinality({j \in 1..k : childAt(j) < tipCount})
      innerMet(k) == Cardinality({j \in 1..k : childAt(j) >= tipCount})
  IN /\ n = total - 1
     /\ \A node \in 0..(total - 1) :
          Cardinality({k \in 1..n : childAt(k) = node}) = (IF node = root THEN 0 ELSE 1)
     /\ \A k \in 1..n :
          /\ parentAt(k) >= tipCount
          /\ parentAt(k) < total
          /\ IF k = 1 THEN parentAt(k) = root
             ELSE parentAt(k) \in Above[k - 1] \cup {childAt(k - 1)}
          /\ childAt(k) = IF childAt(k) < tipCount THEN tipsMet(k) - 1
                          ELSE tipCount + innerMet(k)

\* C15: every tree of the NWKA parser or the binary reader gives the
\* childless nodes the ids 0..tipCount-1 and the other nodes the ids from
\* tipCount on, each in DFS pre-order, so that a root with children has the
\* id tipCount; it has tipCount+Nnode-1 edges, every node but the root is
\* the child of exactly one edge, the root of none, and no leaf is a parent.
C15_UnifiedNodeIds ==
  /\ \A i \in 1..Len(parsedTrees) : UnifiedIds(parsedTrees[i])
  /\ \A i \in 1..Len(txTrees) : UnifiedIds(txTrees[i])
  /\ (txPhase \in {"single", "parsed"} /\ txOne.parsed.st = "ok")
       => UnifiedIds(txOne.parsed.tree)


C15_Witness ==
  /\ txPhase = "parsed"
  /\ txOne.parsed.st = "ok"
  /\ ParsedNodes(txOne.parsed.tree) = txGiven.nodes
  /\ txOne.parsed.tree.Nnode = 4
  /\ txOne.parsed.tree.edge =
       <<<<7, 8>>, <<8, 0>>, <<8, 1>>, <<8, 2>>, <<7, 9>>, <<9, 3>>, <<9, 10>>, <<10, 4>>,
         <<10, 5>>, <<7, 6>>>>


\* the values of the text attribute "Name" at the nodes of a tree (1-based
\* ids) in canonical DFS order
NameView(tree) ==
  LET tr == Traversal(tree)
      slot == attributeIndex(tree.attributes, Attr(NAMEATTRIBUTE, FALSE)) + 1
  IN [i \in 0..(NodeTotal(tree) - 1) |->
        IF slot = 0 THEN <<>> ELSE NodeValue(tree, slot, tr.sortedNodes[i]).s]

\* C16: in a file with a shared name table (bit 0 of the header byte) every
\* non-empty Name, of a tip and of an internal node alike, is written as an
\* index the reader resolves to the same string or as a literal after the
\* byte 255: the decoded Name of every node is the Name that was written.
C16_SharedNamesResolve ==
  (WholeFileRead /\ Len(binFile) >= 5 /\ BitAnd(binFile[5], 1) = 1) =>
    /\ rdPhase = "done"
    /\ Len(parsedTrees) = Len(binTrees)
    /\ \A i \in 1..Len(binTrees) :
         NameView(OneBased(parsedTrees[i])) = NameView(binTrees[i])

\* the attribute values of a tree other than the Names, node by node in
\* canonical DFS order, each with the name of the attribute it belongs to
SchemaView(tree) ==
  LET v == TreeView(tree)
  IN [i \in DOMAIN v |-> {p \in v[i].attrs : ~equalCI(p[1], NAMEATTRIBUTE)}]

\* C17: with a shared attribute table (bit 1 of the header byte) the writer
\* completes every record of the collection, and every (index, value) pair
\* of a node carries the index, in the shared table, of the attribute of the
\* tree that holds the value: read against the shared table, each record
\* gives every value back under the name of the tree's own attribute, also
\* for a tree whose attribute list is shorter than the table or ordered
\* differently.
C17_SharedSchemaIndices ==
  (binMode = "whole" /\ binWr \in {"closed", "failed"}
     /\ Len(binFile) >= 5 /\ BitAnd(binFile[5], 2) = 2) =>
    /\ binWr = "closed"
    /\ WholeFileRead /\ rdPhase = "done" =>
         /\ Len(parsedTrees) = Len(binTrees)
         /\ \A i \in 1..Len(binTrees) :
              SchemaView(OneBased(parsedTrees[i])) = SchemaView(binTrees[i])

\* an undamaged file whose records are complete: written in one call, or by
\* the incremental writer (open or finished)
RecordsWritten ==
  \/ binMode = "whole" /\ binWr = "closed" /\ binDamage = "none"
  \/ binMode = "incremental" /\ binWr \in {"open", "closed"} /\ binDamage = "none"

\* where record i starts and where the next byte after it is
RecordStart(i) == binAddresses[i]
RecordLimit(i) ==
  IF i < Len(binTrees) \/ binMode = "incremental" THEN binAddresses[i + 1]
  ELSE Int64At(binFile, Len(binFile) - 12) - Len(binExtra)

\* the child counts of a written tree in traversal order
ChildCounts(tree) ==
  [i \in 1..NodeTotal(tree) |-> Len(Traversal(tree).sortedChildren[i - 1])]

\* C18: readBinaryTree, started at the first byte of a record of the file,
\* reads as many child counts as the tree has nodes, stands after the
\* counts exactly where the writer stood after them (one byte back from
\* where the loop stopped iff the bit cursor is 0, the case in which the
\* writer flushed no partial byte), and ends on the byte after the record.
C18_RecordConsumedExactly ==
  RecordsWritten =>
    \A i \in 1..Len(binTrees) :
      LET pre == ReadPreamble(binFile, 0)
          tab == readRecordTable(seekg(Stream(binFile), RecordStart(i), "beg"),
                                 pre.allAttributes, 0)
          t == readCounts(tab.s, 0)
          packed == PackCounts(ChildCounts(binTrees[i]), 1, 0, 0)
      IN /\ tab.st = "ok" /\ t.st = "ok"
         /\ Len(t.parents) = NodeTotal(binTrees[i])
         /\ seekAfterCounts(t.s, t.currIndex).pos = tab.s.pos + Len(packed)
         /\ (t.currIndex = 0) = (t.s.pos = tab.s.pos + Len(packed) + 1)
         /\ RecordEnd(binFile, RecordStart(i), pre.globalNames, pre.allNames,
                      pre.allAttributes) = RecordLimit(i)

\* a file of two records was written, the three-tip star among them: its
\* four counts fill one byte and leave the bit cursor at 0
C18_Witness ==
  /\ RecordsWritten
  /\ Len(binTrees) = 2
  /\ \E i \in 1..2 :
       /\ ChildCounts(binTrees[i]) = <<3, 0, 0, 0>>
       /\ readCounts(readRecordTable(seekg(Stream(binFile), RecordStart(i), "beg"),
                                     ReadPreamble(binFile, 0).allAttributes, 0).s,
                     0).currIndex = 0
  /\ \E i \in 1..2 : NodeTotal(binTrees[i]) = 3

\* C19: without a valid trailer the sequential loop of readBinaryTrees
\* terminates: decoding fails at malformed data or at the end of the stream,
\* the loop exits and the call returns the trees collected so far.  The call
\* ends in no other way, and no iteration that ran into the end of the
\* stream is followed by another one.
C19_FallbackLoopTerminates ==
  TrailerLost /\ rdPhase # "idle" =>
    /\ rdPhase \in {"scan", "done"}
    /\ rdPhase = "scan" => ~rdStream.fail

\* C20: an unbracketed label not preceded by ':' or '/' becomes the Name
\* when it is quoted, when the node is a leaf with no Name, Length or
\* Support yet, or when the whole of it is not a number; otherwise it
\* becomes the Support.  (A,B)1abc; gives the root the Name 1abc, (A,B)-1;
\* the Support -1 and (A,B).5; the Support 0.5.
C20_LabelClassification ==
  (txPhase = "parsed" /\ \E source \in LabelSources : source.text = txOne.written.out) =>
    /\ txOne.parsed.st = "ok"
    /\ ParsedNodes(txOne.parsed.tree) = txGiven.nodes

\* the attribute table record i of the file starts with (empty when the
\* record refers to the shared table)
OwnTable(i) ==
  readRecordTable(seekg(Stream(binFile), binAddresses[i], "beg"), <<>>, 0).val

\* the writer has put the tables of the file on the stream
TablesWritten ==
  /\ binMode \in {"whole", "incremental"}
  /\ binWr \in {"open", "closed", "failed"} /\ binDamage = "none"
  /\ Len(binFile) >= 5

\* C21: an attribute table of the file holds one entry per attribute slot
\* of the trees it covers, two attributes being one slot iff their names
\* match whatever the case and their types match.  The table of a record is
\* the attribute list of its tree, entry by entry (a text and a numeric
\* attribute of one name are two entries); the shared table has, for every
\* attribute of every tree, exactly one entry of this name and type.
C21_TableEntryPerSlot ==
  TablesWritten =>
    IF BitAnd(binFile[5], 2) = 0
    THEN \A i \in 1..Len(binTrees) :
           i <= (IF binMode = "whole" THEN Len(binAddresses) ELSE Len(binAddresses) - 1)
             => OwnTable(i) = binTrees[i].attributes
    ELSE LET table == ReadPreamble(binFile, 0).allAttributes
         IN /\ \A i \in 1..Len(binTrees) : \A j \in 1..Len(binTrees[i].attributes) :
                 Cardinality(SlotsCI(table, binTrees[i].attributes[j].AttributeName,
                                     binTrees[i].attributes[j].IsNumeric)) = 1
            /\ \A k \in 1..Len(table) :
                 \E i \in 1..Len(binTrees) :
                   SlotsCI(binTrees[i].attributes, table[k].AttributeName,
                           table[k].IsNumeric) # {}

\* the non-empty Names of a converted tree, internal nodes first
NamesOf(tree) ==
  LET slot == LastSlot(tree.attributes, NAMEATTRIBUTE, FALSE) + 1
      all == tree.nodeAttributes[slot].s \o tree.tipAttributes[slot].s
  IN SelectSeq(all, LAMBDA name : name # <<>>)

\* how many Names (attributes) tree i brings that no tree before it has
NewNames(trees, i) ==
  Cardinality({NamesOf(trees[i])[k] : k \in 1..Len(NamesOf(trees[i]))}
                \ UNION {{NamesOf(trees[h])[k] : k \in 1..Len(NamesOf(trees[h]))}
                         : h \in 1..(i - 1)})
NewAttributes(trees, i) ==
  Cardinality({trees[i].attributes[k] : k \in 1..Len(trees[i].attributes)}
                \ UNION {{trees[h].attributes[k] : k \in 1..Len(trees[h].attributes)}
                         : h \in 1..(i - 1)})

\* C22: names are written per tree (bit 0 of the header byte clear) iff
\* some tree after the first brings more new names than half the count of
\* its own non-empty names, attributes per tree (bit 1 clear) iff some tree
\* after the first brings more new attributes than half its attribute
\* count; the mode of the header byte is that of every record (a record has
\* its own attribute table iff bit 1 is clear).
C22_DeduplicationDecision ==
  (binMode = "whole" /\ binWr \in {"closed", "failed"} /\ Len(binFile) >= 5) =>
    /\ (BitAnd(binFile[5], 1) = 0)
         <=> \E i \in 2..Len(binTrees) :
               NewNames(binTrees, i) * 2 > Len(NamesOf(binTrees[i]))
    /\ (BitAnd(binFile[5], 2) = 0)
         <=> \E i \in 2..Len(binTrees) :
               NewAttributes(binTrees, i) * 2 > Len(binTrees[i].attributes)
    /\ \A i \in 1..Len(binAddresses) :
         (OwnTable(i) # <<>>) <=> (BitAnd(binFile[5], 2) = 0)

\* C22 as the code has it: a tree counts for the decision when the running
\* table is not empty before it.  Names are written per tree iff some tree
\* that comes after a tree with a non-empty name brings more new names than
\* half the count of its own non-empty names; attributes per tree iff some
\* tree after the first brings more new attributes than half its attribute
\* count; the mode of the header byte is that of every record.
C22_DecisionOnNonEmptyTable ==
  (binMode = "whole" /\ binWr \in {"closed", "failed"} /\ Len(binFile) >= 5) =>
    /\ (BitAnd(binFile[5], 1) = 0)
         <=> \E i \in 2..Len(binTrees) :
               /\ \E h \in 1..(i - 1) : NamesOf(binTrees[h]) # <<>>
               /\ NewNames(binTrees, i) * 2 > Len(NamesOf(binTrees[i]))
    /\ (BitAnd(binFile[5], 2) = 0)
         <=> \E i \in 2..Len(binTrees) :
               /\ \E h \in 1..(i - 1) : binTrees[h].attributes # <<>>
               /\ NewAttributes(binTrees, i) * 2 > Len(binTrees[i].attributes)
    /\ \A i \in 1..Len(binAddresses) :
         (OwnTable(i) # <<>>) <=> (BitAnd(binFile[5], 2) = 0)

\* two trees were written, the first without any name, the second with
\* names that are all new; and the names are shared
C22_Witness ==
  /\ binMode = "whole" /\ binWr = "closed"
  /\ Len(binTrees) = 2
  /\ NamesOf(binTrees[1]) = <<>>
  /\ NewNames(binTrees, 2) * 2 > Len(NamesOf(binTrees[2]))
  /\ BitAnd(binFile[5], 1) = 1

\* ------------------------------------------------- the canonical traversal
\* Edge lists of trees with tips 1..t, root t + 1 and the other internal
\* nodes t + 2.., every internal node with a child, the edges in any order.
NonRootAt(t, i) == IF i <= t THEN i ELSE i + 1

RECURSIVE UnderRoot(_, _, _, _)
UnderRoot(par, root, node, fuel) ==
  IF node = root THEN TRUE
  ELSE IF fuel = 0 THEN FALSE
  ELSE UnderRoot(par, root, par[node], fuel - 1)

ParentMaps(t, N) ==
  {par \in [(1..(t + N)) \ {t + 1} -> (t + 1)..(t + N)] :
     /\ \A m \in (t + 1)..(t + N) : \E c \in DOMAIN par : par[c] = m
     /\ \A c \in DOMAIN par : UnderRoot(par, t + 1, c, t + N)}

EdgeLists(t, N) ==
  {[Nnode |-> N, tipLabel |-> [i \in 1..t |-> <<>>],
    edge |-> [k \in 1..(t + N - 1) |->
                <<par[NonRootAt(t, order[k])], NonRootAt(t, order[k])>>]]
   : par \in ParentMaps(t, N), order \in Permutations(1..(t + N - 1))}

TraversalInputs ==
  UNION {EdgeLists(tN[1], tN[2])
         : tN \in {x \in (1..(MaxNodes - 1)) \X (1..(MaxNodes - 1)) : x[1] + x[2] <= MaxNodes}}

TrInit ==
  /\ trTree \in TraversalInputs
  /\ trOut = NoTraversal
  /\ tkSource = <<>> /\ tkKind = "none" /\ tkNow = Tokenizer(0, NoStream)
  /\ IoStart
  /\ SiStart /\ BinStart /\ TxtStart

\* the root search and addChildren(&children, ..., rootNode, -1)
Traverse ==
  /\ ~trOut.filled
  /\ trOut' = [filled |-> TRUE, rootNode |-> RootNode(trTree), st |-> Traversal(trTree)]
  /\ UNCHANGED <<trTree, tkSource, tkKind, tkNow, ioVars, siVars, binVars, txtVars>>

TrNext == Traverse

SpecTraversal == TrInit /\ [][TrNext]_vars

\* position of a node in the traversal
PositionsOf(node) == {p \in DOMAIN trOut.st.sortedNodes : trOut.st.sortedNodes[p] = node}

\* the children of a node, in the order of their edges
ChildrenInEdgeOrder(node) ==
  LET F[k \in 0..Len(trTree.edge)] ==
        IF k = 0 THEN <<>>
        ELSE IF trTree.edge[k][1] = node THEN Append(F[k - 1], trTree.edge[k][2])
        ELSE F[k - 1]
  IN F[Len(trTree.edge)]

\* the positions above a position, following sortedParents
RECURSIVE AbovePositions(_, _)
AbovePositions(p, fuel) ==
  IF p <= 0 \/ fuel = 0 THEN {}
  ELSE {trOut.st.sortedParents[p]} \cup AbovePositions(trOut.st.sortedParents[p], fuel - 1)

\* C23: the traversal starts at the one node that is no edge's child, gives
\* every node exactly one position of 0..n-1 in depth-first pre-order, the
\* root position 0 with parent -1, every other node a parent position smaller
\* than its own, and lists a node's children in the order of their edges.
C23_CanonicalTraversal ==
  trOut.filled =>
    LET n == NodeTotal(trTree)
        st == trOut.st
    IN /\ {m \in 1..n : \A k \in 1..Len(trTree.edge) : trTree.edge[k][2] # m}
            = {trOut.rootNode}
       /\ st.currIndex = n
       /\ \A node \in 1..n : Cardinality(PositionsOf(node)) = 1
       /\ st.sortedNodes[0] = trOut.rootNode
       /\ st.sortedParents[0] = -1
       /\ \A p \in 1..(n - 1) :
            /\ st.sortedParents[p] \in 0..(p - 1)
            /\ \E k \in 1..Len(trTree.edge) :
                 trTree.edge[k] = <<st.sortedNodes[st.sortedParents[p]], st.sortedNodes[p]>>
            /\ \A q \in (st.sortedParents[p] + 1)..(p - 1) :
                 st.sortedParents[p] \in AbovePositions(q, n)
       /\ \A p \in 0..(n - 1) :
            /\ Len(st.sortedChildren[p]) = Len(ChildrenInEdgeOrder(st.sortedNodes[p]))
            /\ \A i \in 1..Len(st.sortedChildren[p]) :
                 st.sortedNodes[st.sortedChildren[p][i]]
                   = ChildrenInEdgeOrder(st.sortedNodes[p])[i]

\* a traversed tree whose edges are listed children first and whose internal
\* node has two children, not in the order of their ids
C23_Witness ==
  /\ trOut.filled
  /\ trTree.edge = <<<<5, 2>>, <<5, 1>>, <<4, 3>>, <<4, 5>>>>
  /\ trOut.st.sortedNodes = [p \in 0..4 |-> <<4, 3, 5, 2, 1>>[p + 1]]

\* C24: in a bracketed list a pair named support or length (whatever the
\* case) is stored as the numeric Support or Length only if the whole of its
\* value is a number; a value that is none, 1.5abc included, makes the parse
\* of the tree fail.
C24_StrictBracketNumbers ==
  (txPhase = "parsed" /\ \E source \in BracketSources : source.text = txOne.written.out) =>
    IF txGiven.nodes = <<>> THEN txOne.parsed.st = "throw"
    ELSE /\ txOne.parsed.st = "ok"
         /\ ParsedNodes(txOne.parsed.tree) = txGiven.nodes

\* the attribute values set at the nodes of a parsed tree, in DFS order
ParsedAttrs(tree) ==
  LET v == AttrView(OneBased(tree)) IN [i \in 1..NodeTotal(tree) |-> v[i - 1].attrs]

\* C25: an unbracketed token after ':' (after '/') becomes the Length (the
\* Support) when it is a number; otherwise it is kept as the text attribute
\* Unknown, or Unknown followed by the first k >= 2 that is free on the node:
\* nothing the node has is overwritten, and several such tokens all survive.
C25_UnknownTokensSurvive ==
  txPhase = "parsed" =>
    \A e \in UnknownExpected :
      e.text = txOne.written.out =>
        /\ txOne.parsed.st = "ok"
        /\ ParsedAttrs(txOne.parsed.tree) = e.attrs

\* (A[Unknown2=q]:x:y,B); parsed: x is Unknown, y is Unknown3
C25_Witness ==
  /\ txPhase = "parsed"
  /\ txOne.written.out = <<40, 65, 91, 85, 110, 107, 110, 111, 119, 110, 50, 61, 113, 93, 58, 120, 58, 121, 44, 66, 41, 59>>
  /\ txOne.parsed.st = "ok"
  /\ <<<<85, 110, 107, 110, 111, 119, 110, 51>>, StrVal(<<121>>)>> \in ParsedAttrs(txOne.parsed.tree)[2]

\* the children parseNWKA finds in a tree string (its ';' removed)
ChildrenOf(text) ==
  LET source == IF trim(text)[Len(trim(text))] = 59
                THEN SubSeq(trim(text), 1, Len(trim(text)) - 1) ELSE trim(text)
  IN SplitChildren(ScanChildren(source,
                                [tk |-> Tokenizer(1, Stream(<<>>)), closed |-> FALSE,
                                 openCount |-> 0, openSquareCount |-> 0, openCurlyCount |-> 0,
                                 commas |-> <<>>, position |-> 0, childrenBuilder |-> <<>>],
                                Len(source) + 1))

TokenAlphabet == {97, 32, 92, 34, 39}

TokenSources == UNION {[1..n -> TokenAlphabet] : n \in 0..MaxTokenLen}

TokInit ==
  /\ tkSource \in TokenSources
  /\ tkKind \in {"string", "file"}
  /\ tkNow = Tokenizer(0, Stream(tkSource))
  /\ trTree = NoTree /\ trOut = NoTraversal
  /\ IoStart
  /\ SiStart /\ BinStart /\ TxtStart

\* c = nextToken(&source, &srPosition, &escaping, &escaped, ...)
CallNextToken ==
  /\ tkKind = "string"
  /\ ~tkNow.eof
  /\ tkNow' = nextToken(tkSource, tkNow)
  /\ UNCHANGED <<tkSource, tkKind, trTree, trOut, ioVars, siVars, binVars, txtVars>>

\* c = nextToken(&file, &escaping, &escaped, ...)
CallNextTokenFile ==
  /\ tkKind = "file"
  /\ ~tkNow.eof
  /\ \E g \in GarbageChars : tkNow' = nextTokenFile(tkNow, g)
  /\ UNCHANGED <<tkSource, tkKind, trTree, trOut, ioVars, siVars, binVars, txtVars>>

TokNext ==
  \/ CallNextToken
  \/ CallNextTokenFile

SpecTokenizer == TokInit /\ [][TokNext]_vars

\* the characters of the input taken so far
TokenPosition(tk) == IF tkKind = "string" THEN tk.srPosition ELSE tk.s.pos

\* C27: a backslash met while not escaping sets escaping; the call that
\* follows returns the very next character as it is with escaped set, skips
\* no white space, opens and closes no quote, and clears escaping.  The two
\* quote flags are never both set, and escaping and escaped are never both
\* set after a call.
C27_EscapeOneCharacter ==
  /\ [](/\ ~(tkNow.openQuotes /\ tkNow.openApostrophe)
        /\ ~(tkNow.escaping /\ tkNow.escaped))
  /\ [][/\ (~tkNow.escaping /\ ~tkNow'.eof /\ tkNow'.c = 92)
             => tkNow'.escaping /\ ~tkNow'.escaped
        /\ (tkNow.escaping /\ TokenPosition(tkNow) < Len(tkSource))
             => /\ ~tkNow'.eof /\ tkNow'.escaped /\ ~tkNow'.escaping
                /\ TokenPosition(tkNow') = TokenPosition(tkNow) + 1
                /\ tkNow'.c = tkSource[TokenPosition(tkNow) + 1]
                /\ tkNow'.openQuotes = tkNow.openQuotes
                /\ tkNow'.openApostrophe = tkNow.openApostrophe]_vars

\* an escaped space, then an escaped quote: both are returned, and no quote
\* is open
C27_Witness ==
  /\ tkSource = <<92, 32, 92, 34>>
  /\ TokenPosition(tkNow) = 4
  /\ tkNow.escaped /\ tkNow.c = 34 /\ ~tkNow.openQuotes /\ ~tkNow.escaping

\* the positions at which piece starts in out
StartsOf(out, piece) ==
  {p \in 1..(Len(out) - Len(piece) + 1) : SubSeq(out, p, p + Len(piece) - 1) = piece}

\* the value an internal node (k-th of the tree) has in the slot of this
\* name and type
InternalValue(tree, name, isNumeric, k) ==
  LET j == attributeIndex(tree.attributes, Attr(name, isNumeric))
  IN IF j < 0 THEN (IF isNumeric THEN NumVal(NaN) ELSE StrVal(<<>>))
     ELSE NodeValue(tree, j + 1, Len(tree.tipLabel) + k)

\* C28: the NWKA string of a tree holds the non-empty Name of every internal
\* node exactly once: as the quoted label after ')' when the Support of the
\* node is unset, as Name= in the [...] block when the Support is set and
\* written in the place of the label.  The block of an internal node holds
\* neither Length= nor Support=.
C28_InternalNameWrittenOnce ==
  (txKind = "tree" /\ txPhase = "single") =>
    LET tree == txOne.tree
        out == txOne.written.out
    IN /\ \A k \in 1..tree.Nnode :
            LET name == InternalValue(tree, <<78, 97, 109, 101>>, FALSE, k).s
                support == InternalValue(tree, <<83, 117, 112, 112, 111, 114, 116>>, TRUE, k).d
                quoted == StartsOf(out, <<39>> \o name \o <<39>>)
            IN name # <<>> =>
                 /\ Cardinality(quoted) = 1
                 /\ \A p \in quoted :
                      IF support.isNaN THEN out[p - 1] = 41
                      ELSE /\ p > 6 /\ SubSeq(out, p - 5, p - 1) = <<78, 97, 109, 101, 61>>
                           /\ out[p - 6] \in {91, 44}
                           /\ StartsOf(out, <<41>> \o DoubleToString(support)) # {}
       /\ StartsOf(out, <<76, 101, 110, 103, 116, 104, 61>>) = {}
       /\ StartsOf(out, <<83, 117, 112, 112, 111, 114, 116, 61>>) = {}

\* the tree whose inner node has the name X and the support 90, written
C28_Witness ==
  /\ txKind = "tree" /\ txPhase = "single"
  /\ txOne.tree.Nnode = 2
  /\ InternalValue(txOne.tree, <<78, 97, 109, 101>>, FALSE, 2).s = <<88>>
  /\ InternalValue(txOne.tree, <<83, 117, 112, 112, 111, 114, 116>>, TRUE, 2).d = Dbl(900000000)
  /\ StartsOf(txOne.written.out, <<41, 57, 48, 46, 48, 48, 48, 48, 48, 48, 58, 48, 46, 53, 48, 48, 48, 48, 48, 91, 78, 97, 109, 101, 61, 39, 88, 39, 93>>) # {}

\* the NEXUS reader is going through the words of a file
ReadingNexus == txKind = "nexus" /\ txPhase = "reading"

\* the statuses outside a Trees block
OutsideTrees == {"Root", "InCommentInRoot", "InOtherBlock", "InCommentInOtherBlock"}

\* C29: tree and translate statements are recognised only in a block opened
\* by Begin and a name that is trees, whatever the case.  Begin and any
\* other name enters InOtherBlock, where every word up to the next End is
\* passed over: outside a Trees block the words tree and translate add no
\* tree and no dictionary entry, and a block of an unknown name is no error.
\* BlocksFile gives the one tree t2 of its Trees block and no dictionary.
C29_OnlyTreesBlockRead ==
  /\ [](/\ (txKind = "nexus" /\ txText = BlocksFile) => txPhase \notin {"error", "ub"}
        /\ (txKind = "nexus" /\ txText = BlocksFile /\ txPhase = "returned") =>
             /\ txNames = <<<<116, 50>>>>
             /\ Len(txTrees) = 1
             /\ txTrees[1].tipLabel = <<<<49>>, <<66>>>>
             /\ DOMAIN txDict = {})
  /\ [][ReadingNexus =>
          /\ txStatus \in OutsideTrees =>
               /\ txTrees' = txTrees /\ txNames' = txNames /\ txDict' = txDict
               /\ txPhase' \in {"reading", "returned"}
               /\ txStatus' \in OutsideTrees \cup {"InTreeBlock"}
          /\ txStatus = "Root" =>
               /\ txStatus' \in {"InTreeBlock", "InOtherBlock"} <=> equalCI(txWord, <<98, 101, 103, 105, 110>>)
               /\ txStatus' = "InCommentInRoot" <=> txWord = <<91>>
          /\ txStatus = "InOtherBlock" =>
               txStatus' = IF equalCI(txWord, <<101, 110, 100>>) THEN "Root"
                           ELSE IF txWord = <<91>> THEN "InCommentInOtherBlock"
                           ELSE "InOtherBlock"
          /\ txStatus' \in {"InTranslateStatement", "InTreeStatement"} =>
               txStatus \in {"InTreeBlock", "InTranslateStatement", "InTreeStatement",
                             "InCommentInTranslateStatement", "InCommentInTreeStatementName"}]_vars

\* BlocksFile read to its end
C29_Witness ==
  /\ txKind = "nexus" /\ txText = BlocksFile /\ txPhase = "returned"
  /\ txNames = <<<<116, 50>>>>
  /\ txStatus = "Root"

\* the statuses a comment may interrupt, and the status of the comment
CommentOf ==
  [status \in {"Root", "InOtherBlock", "InTreeBlock", "InTranslateStatement", "InTreeStatement"}
     |-> CASE status = "Root" -> "InCommentInRoot"
           [] status = "InOtherBlock" -> "InCommentInOtherBlock"
           [] status = "InTreeBlock" -> "InCommentInTreeBlock"
           [] status = "InTranslateStatement" -> "InCommentInTranslateStatement"
           [] status = "InTreeStatement" -> "InCommentInTreeStatementName"]

\* C30: in each of Root, InOtherBlock, InTreeBlock, InTranslateStatement and
\* InTreeStatement the word [ enters the comment status of that status; in
\* a comment every word but ] is passed over (no block opens or closes, no
\* tree and no dictionary entry is added) and the first ] returns to the
\* status the comment was entered from.  CommentsFile gives the one tree t1
\* with the tips Alpha and Beta of its two dictionary entries.
C30_CommentsSkipped ==
  /\ [](/\ (txKind = "nexus" /\ txText = CommentsFile) => txPhase \notin {"error", "ub"}
        /\ (txKind = "nexus" /\ txText = CommentsFile /\ txPhase = "returned") =>
             /\ txNames = <<<<116, 49>>>>
             /\ Len(txTrees) = 1
             /\ txTrees[1].tipLabel = <<<<65, 108, 112, 104, 97>>, <<66, 101, 116, 97>>>>
             /\ DOMAIN txDict = {<<49>>, <<50>>})
  /\ [][ReadingNexus =>
          \A status \in DOMAIN CommentOf :
            /\ (txStatus = status /\ txWord = <<91>>) =>
                 /\ txStatus' = CommentOf[status]
                 /\ txTrees' = txTrees /\ txNames' = txNames /\ txDict' = txDict
            /\ txStatus = CommentOf[status] =>
                 /\ txStatus' = IF txWord = <<93>> THEN status ELSE CommentOf[status]
                 /\ txTrees' = txTrees /\ txNames' = txNames /\ txDict' = txDict
                 /\ txPhase' \in {"reading", "returned"}]_vars

\* CommentsFile read to its end
C30_Witness ==
  /\ txKind = "nexus" /\ txText = CommentsFile /\ txPhase = "returned"
  /\ txNames = <<<<116, 49>>>>
  /\ txDict[<<49>>] = <<65, 108, 112, 104, 97>>

\* ===================================================== the two writers
\* a complete, undamaged file of the incremental writer
FinishedIncrementalFile ==
  binMode = "incremental" /\ binWr = "closed" /\ binDamage = "none"

\* what writeBinaryTrees writes for the trees appended and the additional
\* data handed to finish
WholeOfAppended == writeBinaryTrees(binTrees, binExtra)

\* writeBinaryTrees accepts them and decides for tables per tree, both for
\* the names and for the attributes
WholeWithOwnTables ==
  WholeOfAppended.st = "ok" /\ WholeOfAppended.out[5] = HeaderByte(TRUE, TRUE)

\* C31: for the same trees and the same additional data, begin, one append
\* per tree and finish leave byte for byte the file that writeBinaryTrees
\* writes when it decides for per-tree tables for names and attributes:
\* header byte 0, no shared tables, the same records at the same
\* addresses, the same label section, label offset and trailer.
C31_IncrementalEqualsWhole ==
  FinishedIncrementalFile /\ WholeWithOwnTables =>
    LET w == WholeOfAppended
        k == Len(binTrees)
    IN /\ binFile[5] = 0
       /\ w.addresses = SubSeq(binAddresses, 1, k)
       /\ k >= 1 => w.addresses[1] = 5
       /\ w.labelAddress = binAddresses[k + 1] + Len(binExtra)
       /\ Int64At(binFile, Len(binFile) - 12) = w.labelAddress
       /\ w.out = binFile

\* two different trees were appended and additional data handed to finish,
\* and writeBinaryTrees decides for per-tree tables on them
C31_Witness ==
  /\ FinishedIncrementalFile
  /\ WholeWithOwnTables
  /\ Len(binTrees) = 2 /\ binTrees[1] # binTrees[2]
  /\ binExtra # <<>>


\* ============================================================ bit cursor
\* *currByte and the returned cursor after the calls of writeShortInt on
\* the values in turn, both starting at 0
RECURSIVE WriterAfter(_)
WriterAfter(values) ==
  IF values = <<>> THEN [currByte |-> 0, ret |-> 0]
  ELSE LET before == WriterAfter(SubSeq(values, 1, Len(values) - 1))
           w == writeShortInt(values[Len(values)], before.currByte, before.ret)
       IN [currByte |-> w.currByte, ret |-> w.ret]

\* the upper two bits of the 4-bit codes 0011, 0111 and 1011
UpperHalf(value) == IF value = 1 THEN 0 ELSE IF value = 4 THEN 1 ELSE 2

\* the positions a cursor takes
Cursors == {0, 2, 4, 6}

\* C32: over any sequence of writeShortInt calls from cursor 0 and the
\* readShortInt calls that read it back, both cursors stay in 0, 2, 4, 6;
\* the reader's cursor after the i-th value is the writer's cursor after
\* writing it; the cursor is 0 after a value above 5; and the writer's
\* pending byte has no bit set at or above the cursor, holding below it,
\* after a 4-bit code started at cursor 6, the upper half of that code.
C32_BitCursor ==
  LET n == Len(siValues)
      r == Len(siRead)
      cursorBefore == WriterAfter(SubSeq(siValues, 1, n - 1)).ret
  IN /\ currPos \in Cursors
     /\ rdIndex \in Cursors
     /\ currPos = WriterAfter(siValues).ret
     /\ currByte = WriterAfter(siValues).currByte
     /\ siPhase \in {"read", "done"} =>
          rdIndex = WriterAfter(SubSeq(siValues, 1, r)).ret
     /\ n >= 1 /\ siValues[n] > 5 => currPos = 0
     /\ siPhase \in {"read", "done"} /\ r >= 1 /\ siValues[r] > 5 => rdIndex = 0
     /\ currByte < 2 ^ currPos
     /\ n >= 1 /\ cursorBefore = 6 /\ siValues[n] \in {1, 4, 5} =>
          currPos = 2 /\ currByte = UpperHalf(siValues[n])

\* a value above 5, then a 4-bit code started at cursor 6, written and read
\* back: the upper half of the code is pending below the cursor
C32_Witness ==
  /\ siPhase = "done"
  /\ siValues = <<1000, 1, 0, 4>>
  /\ Len(siRead) = 4
  /\ currPos = 2 /\ currByte = 1
  /\ rdIndex = 2


\* =========================================================== fixed point
\* readBinaryTrees on a complete file: [st, trees, treeNames]
DecodeFile(data) ==
  LET pre == ReadPreamble(data, 0)
      all == ReadByAddress(pre, 1, [st |-> "ok", trees |-> <<>>, treeNames |-> <<>>,
                                    s |-> pre.s], 0)
  IN [st |-> IF pre.st # "ok" THEN pre.st ELSE all.st,
      trees |-> all.trees, treeNames |-> all.treeNames]

\* the file Rcpp_write_binary_trees writes for the one decoded tree u
\* handed back under its name
WholeAgain(u, name) ==
  writeBinaryTrees(convertTrees(<<convertPhylo(u)>>, <<name>>), <<>>)

\* the file that begin, one append of the decoded tree u and finish leave
AppendedAgain(u) ==
  LET w == writeBinaryTree(convertTree(convertPhylo(u)), FALSE, FALSE, EmptyMap, EmptyMap, <<>>)
  IN [st |-> w.st,
      out |-> beginWritingBinaryTrees \o w.out
                \o finishWritingBinaryTrees(<<5, 5 + Len(w.out)>>, <<>>)]

\* what a decoded tree says: node numbering and edge order, tip label
\* order, edge lengths, attributes and their values
Decoded(tree) ==
  [Nnode |-> tree.Nnode, edge |-> tree.edge, tipLabel |-> tree.tipLabel,
   edgeLength |-> tree.edgeLength, attributes |-> tree.attributes,
   tipAttributes |-> tree.tipAttributes, nodeAttributes |-> tree.nodeAttributes]

\* the decoded tree u, written again by the writer that wrote it and read
\* again, comes back as it is
FixedPoint(u, name) ==
  LET again == IF binMode = "whole" THEN WholeAgain(u, name) ELSE AppendedAgain(u)
      back == DecodeFile(again.out)
  IN /\ again.st = "ok"
     /\ back.st = "ok"
     /\ Len(back.trees) = 1
     /\ Decoded(back.trees[1]) = Decoded(u)

\* an undamaged file of this writer has been read to its end
OwnFileRead ==
  /\ binMode \in {"whole", "incremental"}
  /\ binWr = "closed" /\ binDamage = "none"
  /\ rdPhase = "done"

\* C33: a tree decoded from a file of the binary writer is a fixed point of
\* the round trip: written again and read again it comes back with the
\* same node numbering, edge order, tip label order, edge lengths and
\* attribute values.
C33_DecodedTreeIsFixedPoint ==
  OwnFileRead =>
    \A i \in 1..Len(parsedTrees) : FixedPoint(parsedTrees[i], rdTreeNames[i])


\* ================================================= integers and strings
\* One value goes through writeInt and readInt, or through writeMyString
\* and readMyString: the writer puts its bytes on the stream, other bytes
\* may follow them in the file, and the reader reads from the start.

\* every integer up to MaxSmallInt and the ends of the ranges of 2, 3 and
\* 4 bytes
IntInputs == (0..MaxSmallInt) \cup {65535, 65536, 16777215, 16777216, 2147483647}

\* NUL, a letter, DEL and a character outside ASCII
StringAlphabet == {0, 65, 127, 254}

StringInputs == UNION {[1..n -> StringAlphabet] : n \in 0..MaxStringLen}

\* what the file holds after the value
FollowingBytes == {<<>>, <<255, 1>>}

IoInit ==
  /\ ioGiven \in
       {[kind |-> "int", int |-> v, text |-> <<>>, after |-> a] :
          v \in IntInputs, a \in FollowingBytes}
         \cup {[kind |-> "string", int |-> 0, text |-> x, after |-> a] :
                 x \in StringInputs, a \in FollowingBytes}
  /\ ioBytes = <<>>
  /\ ioBack = NoBack
  /\ ioPhase = "given"
  /\ trTree = NoTree /\ trOut = NoTraversal
  /\ tkSource = <<>> /\ tkKind = "none" /\ tkNow = Tokenizer(0, NoStream)
  /\ SiStart /\ BinStart /\ TxtStart

\* writeInt(stream, val)
CallWriteInt ==
  /\ ioPhase = "given" /\ ioGiven.kind = "int"
  /\ ioBytes' = writeInt(ioGiven.int)
  /\ ioPhase' = "written"
  /\ UNCHANGED <<ioGiven, ioBack, trTree, trOut, tkSource, tkKind, tkNow,
                 siVars, binVars, txtVars>>

\* readInt(stream) at the start of the file
CallReadInt ==
  /\ ioPhase = "written" /\ ioGiven.kind = "int"
  /\ \E g \in GarbageBytes :
       LET r == readInt(Stream(ioBytes \o ioGiven.after), g)
       IN ioBack' = [st |-> "ok", int |-> r.val, text |-> <<>>, s |-> r.s]
  /\ ioPhase' = "read"
  /\ UNCHANGED <<ioGiven, ioBytes, trTree, trOut, tkSource, tkKind, tkNow,
                 siVars, binVars, txtVars>>

\* writeMyString(stream, val)
CallWriteMyString ==
  /\ ioPhase = "given" /\ ioGiven.kind = "string"
  /\ ioBytes' = writeMyString(ioGiven.text)
  /\ ioPhase' = "written"
  /\ UNCHANGED <<ioGiven, ioBack, trTree, trOut, tkSource, tkKind, tkNow,
                 siVars, binVars, txtVars>>

\* readMyString(stream) at the start of the file
CallReadMyString ==
  /\ ioPhase = "written" /\ ioGiven.kind = "string"
  /\ \E g \in GarbageBytes :
       LET r == readMyString(Stream(ioBytes \o ioGiven.after), g)
       IN ioBack' = [st |-> r.st, int |-> 0, text |-> r.val, s |-> r.s]
  /\ ioPhase' = "read"
  /\ UNCHANGED <<ioGiven, ioBytes, trTree, trOut, tkSource, tkKind, tkNow,
                 siVars, binVars, txtVars>>

IoNext ==
  \/ CallWriteInt
  \/ CallReadInt
  \/ CallWriteMyString
  \/ CallReadMyString

SpecVarInt == IoInit /\ [][IoNext]_vars

\* the byte v below 254, else 254 and v as four bytes, low byte first
VarIntBytes(v) ==
  IF v < 254 THEN <<v>>
  ELSE <<254, v % 256, (v \div 256) % 256, (v \div 65536) % 256, v \div 16777216>>

\* the reader stopped right after the bytes the writer wrote
ConsumedExactly == ~ioBack.s.fail /\ ioBack.s.pos = Len(ioBytes)

\* all characters are ASCII
IsAscii(text) == \A i \in 1..Len(text) : text[i] <= 127

\* C34: writeInt writes an integer v of 0 .. 2^31 - 1 as the byte v when
\* v < 254 and as 254 followed by the four bytes of v, low byte first,
\* otherwise, so 254 and 255 are never a one-byte encoding; readInt on
\* these bytes returns v and consumes exactly them; and an ASCII string
\* written by writeMyString is read back unchanged by readMyString.
C34_VarIntRoundTrip ==
  /\ ioGiven.kind = "int" /\ ioPhase \in {"written", "read"} =>
       /\ ioBytes = VarIntBytes(ioGiven.int)
       /\ Len(ioBytes) = 1 => ioBytes[1] \notin {254, 255}
  /\ ioGiven.kind = "int" /\ ioPhase = "read" =>
       /\ ioBack.int = ioGiven.int
       /\ ConsumedExactly
  /\ ioGiven.kind = "string" /\ ioPhase = "read" /\ IsAscii(ioGiven.text) =>
       /\ ioBack.st = "ok"
       /\ ioBack.text = ioGiven.text
       /\ ConsumedExactly

\* 254, the first integer that is escaped, came back with other bytes
\* following it in the file
C34_Witness ==
  /\ ioPhase = "read"
  /\ ioGiven.kind = "int" /\ ioGiven.int = 254
  /\ ioGiven.after # <<>>
  /\ ioBytes = <<254, 254, 0, 0, 0>>
  /\ ioBack.int = 254
  /\ ioBack.s.pos = 5

====
